---- MODULE Spec2Model ----
(***************************************************************************)
(* A model of shibukawa/slices: the sorted-slice operations of             *)
(* template/slices.go (binary search, index-of, contains, insert, remove)  *)
(* and the TimSort engine behind ValueTypeSort.                            *)
(*                                                                         *)
(* Elements are pairs <<key, tag>>.  The comparator looks at the key only, *)
(* so two elements with the same key and different tags are equivalent     *)
(* under the order without being equal: that is what makes stability and   *)
(* "which of the equivalent elements" observable.                          *)
(*                                                                         *)
(* Go slices are 0-based; the sequences here are 1-based.  All index       *)
(* arithmetic is kept 0-based as in the source and only At/Put/Copy        *)
(* translate to the 1-based sequence.                                      *)
(***************************************************************************)
EXTENDS Integers, Sequences, FiniteSets, TLC

(***************************************************************************)
(* Bounds of the model.                                                    *)
(***************************************************************************)
\* keys of the elements of sorted slices and of small arrays are 0..MaxKey
MaxKey == 2
\* the sorted slices the operations start from have at most MaxLen elements
MaxLen == 2

\* the arrays handed to the sort have at most MaxSmallLen elements, or are
\* made of blocks of 0, BlockUnit, 2*BlockUnit, ..., MaxUnits*BlockUnit
\* elements each
MaxSmallLen == 4
BlockUnit == 12
MaxUnits == 3

\* the tests pass three slices to the k-way calls
MaxSources == 3

\* run stacks are followed for every array of 2, 4, ..., 2^MaxDoublings blocks
\* whatever its runs, and for the splitting runs of widths 2 .. MaxSplit
MaxDoublings == 3
MaxSplit == 3

\* the functions the sort is made of are also called one at a time: the
\* gallops on runs of at most MaxRunLen elements, mergeAt on two runs of at
\* most MaxMergeLen elements each with minGallop from 1 to MaxGallop, and
\* minRunLength on every length up to MaxArrayLen
MaxRunLen == 8
MaxMergeLen == 4
MaxGallop == 3
MaxArrayLen == 260

VARIABLES
    sorted,      \* the caller's sorted slice (sorted-slice operations)
    call,        \* the last call made on the slice and what it returned
    last,        \* the call before that
    arr,         \* ValueTypeSort's a, the array being sorted
    orig,        \* the array as it was handed to ValueTypeSort
    pc,          \* where ValueTypeSort is: start, run, collapse, force, done
    sortLo,      \* ValueTypeSort's lo
    nRemaining,  \* ValueTypeSort's nRemaining
    minRun,      \* ValueTypeSort's minRun
    sortRunLen,  \* ValueTypeSort's runLen, the run pushed last
    ts,          \* the timSortHandler
    err,         \* the error ValueTypeSort returns, or a run-time panic
    merges       \* how each mergeAt of this sort ran, in order

opsVars == <<sorted, call, last>>

sortVars == <<arr, orig, pc, sortLo, nRemaining, minRun, sortRunLen, ts, err, merges>>

vars == <<opsVars, sortVars>>

(***************************************************************************)
(* The comparator.  The tests instantiate the template with                *)
(* cmp(a, b) = a < b; here it compares the keys and ignores the tags.      *)
(***************************************************************************)
lt(x, y) == x[1] < y[1]

\* neither is less than the other
Equivalent(x, y) == ~lt(x, y) /\ ~lt(y, x)

\* 0-based element access, as in the source
At(s, i) == s[i + 1]

InRange(s, i) == 0 <= i /\ i < Len(s)

\* Go's s[lo:hi] for 0 <= lo <= hi <= len(s)
Slice(s, lo, hi) == SubSeq(s, lo + 1, hi)

(***************************************************************************)
(* template/slices.go: ValueTypeBinarySearch.                              *)
(* The loop runs over i, j starting from 0, len(sorted)-1.                 *)
(***************************************************************************)
RECURSIVE BinarySearchLoop(_, _, _, _)
BinarySearchLoop(s, item, i, j) ==
    IF i < j
    THEN LET h == (i + j) \div 2
         IN  IF lt(At(s, h), item)
             THEN BinarySearchLoop(s, item, h + 1, j)
             ELSE BinarySearchLoop(s, item, i, h)
    ELSE i

\* a plausible slip: the textbook upper bound j = len(sorted)
BinarySearchUpperLen(s, item) == BinarySearchLoop(s \o <<item>>, item, 0, Len(s))

\* a plausible slip: the comparison turned around (rightmost instead of leftmost)
RECURSIVE BinarySearchLoopLE(_, _, _, _)
BinarySearchLoopLE(s, item, i, j) ==
    IF i < j
    THEN LET h == (i + j) \div 2
         IN  IF ~lt(item, At(s, h))
             THEN BinarySearchLoopLE(s, item, h + 1, j)
             ELSE BinarySearchLoopLE(s, item, i, h)
    ELSE i

BinarySearchRightmost(s, item) == BinarySearchLoopLE(s, item, 0, Len(s) - 1)

ValueTypeBinarySearch(s, item) == BinarySearchLoop(s, item, 0, Len(s) - 1)

(***************************************************************************)
(* The results of the calls.  An index expression out of range ends a Go   *)
(* program with a run-time panic; the result records it.                   *)
(***************************************************************************)
Returned(op, s, item, idx, found, out) ==
    [op |-> op, item |-> item, arg |-> s, panic |-> FALSE,
     idx |-> idx, found |-> found, out |-> out]

Panicked(op, s, item) ==
    [op |-> op, item |-> item, arg |-> s, panic |-> TRUE,
     idx |-> 0, found |-> FALSE, out |-> s]

NoCall == Returned("none", <<>>, <<0, 0>>, 0, FALSE, <<>>)

\* ValueTypeIndexOf: sorted[i] is read without a check of the length
ValueTypeIndexOf(s, item) ==
    LET i == ValueTypeBinarySearch(s, item)
    IN  IF ~InRange(s, i) THEN Panicked("IndexOf", s, item)
        ELSE IF ~lt(At(s, i), item) /\ ~lt(item, At(s, i))
             THEN Returned("IndexOf", s, item, i, TRUE, s)
             ELSE Returned("IndexOf", s, item, -1, FALSE, s)

\* ValueTypeContains
ValueTypeContains(s, item) ==
    LET i == ValueTypeBinarySearch(s, item)
    IN  IF ~InRange(s, i) THEN Panicked("Contains", s, item)
        ELSE Returned("Contains", s, item, i,
                      ~lt(At(s, i), item) /\ ~lt(item, At(s, i)), s)

\* a plausible slip: the item's place is taken to be the last element
InsertAlwaysAppend(s, item) ==
    Returned("Insert", s, item, Len(s), FALSE, s \o <<item>>)

\* a plausible slip: the item goes after the elements equivalent to it
InsertAfterEquals(s, item) ==
    LET n == Cardinality({ i \in 1 .. Len(s) : ~lt(item, s[i]) })
    IN  Returned("Insert", s, item, n, FALSE,
                 Slice(s, 0, n) \o (<<item>> \o Slice(s, n, Len(s))))

\* ValueTypeInsert: the && short-circuits, so sorted[i] is read only when
\* i == len(sorted)-1; the slice expressions need 0 <= i <= len(sorted)
ValueTypeInsert(s, item) ==
    LET i == ValueTypeBinarySearch(s, item)
    IN  IF i = Len(s) - 1 /\ ~InRange(s, i) THEN Panicked("Insert", s, item)
        ELSE IF i = Len(s) - 1 /\ lt(At(s, i), item)
             THEN Returned("Insert", s, item, i, FALSE, s \o <<item>>)
             ELSE IF i < 0 \/ i > Len(s) THEN Panicked("Insert", s, item)
                  ELSE Returned("Insert", s, item, i, FALSE,
                                Slice(s, 0, i) \o (<<item>> \o Slice(s, i, Len(s))))

\* a plausible slip: the element after the found one is removed
RemoveAtNext(s, i) ==
    IF i + 1 < Len(s) THEN Slice(s, 0, i + 1) \o Slice(s, i + 2, Len(s))
    ELSE Slice(s, 0, i)

\* ValueTypeRemoveAt: append(sorted[:i], sorted[i+1:]...)
ValueTypeRemoveAt(s, i) == Slice(s, 0, i) \o Slice(s, i + 1, Len(s))

\* ValueTypeRemove
ValueTypeRemove(s, item) ==
    LET i == ValueTypeBinarySearch(s, item)
    IN  IF ~InRange(s, i) THEN Panicked("Remove", s, item)
        ELSE IF ~lt(At(s, i), item) /\ ~lt(item, At(s, i))
             THEN Returned("Remove", s, item, i, TRUE, ValueTypeRemoveAt(s, i))
             ELSE Returned("Remove", s, item, i, FALSE, s)

(***************************************************************************)
(* TimSort (the timsort template; the `<` of the comparable variant and    *)
(* the lt(...) of the comparator variant are the same code).               *)
(*                                                                         *)
(* A Go error value is a string here, Nil for the nil error.               *)
(***************************************************************************)
Nil == "nil"

\* the zero value make([]ValueType, n) fills a new slice with
Zero == <<0, 0>>

MakeSlice(n) == [i \in 1 .. n |-> Zero]

MakeInts(n) == [i \in 1 .. n |-> 0]

\* a[i] = v
Put(s, i, v) == [s EXCEPT ![i + 1] = v]

\* copy(dst[d:d+n], src[s0:s0+n]); Go's copy reads the source as it was
\* before the call when the two overlap
Copy(dst, d, src, s0, n) ==
    [k \in 1 .. Len(dst) |->
        IF d + 1 <= k /\ k <= d + n THEN src[s0 + (k - d)] ELSE dst[k]]

Min(x, y) == IF x <= y THEN x ELSE y

\* x | y on non-negative ints
RECURSIVE BitOr(_, _)
BitOr(x, y) ==
    IF x = 0 THEN y
    ELSE IF y = 0 THEN x
    ELSE (IF x % 2 = 1 \/ y % 2 = 1 THEN 1 ELSE 0) + 2 * BitOr(x \div 2, y \div 2)

minMerge == 32
initialMinGallop == 7
initialTmpStorageLength == 256

\* the array length from which newTimSort makes the longest run stack
largeLen == 119151

(***************************************************************************)
(* binarySort                                                              *)
(***************************************************************************)
\* a plausible slip: pivot <= a[mid], which puts the pivot before its equals
RECURSIVE BinarySortSearchLE(_, _, _, _)
BinarySortSearchLE(a, pivot, left, right) ==
    IF left < right
    THEN LET mid == (left + right) \div 2
         IN  IF ~lt(At(a, mid), pivot)
             THEN BinarySortSearchLE(a, pivot, left, mid)
             ELSE BinarySortSearchLE(a, pivot, mid + 1, right)
    ELSE [left |-> left, right |-> right]

\* the inner loop: for left < right { mid := (left+right)>>1 ... }
RECURSIVE BinarySortSearch(_, _, _, _)
BinarySortSearch(a, pivot, left, right) ==
    IF left < right
    THEN LET mid == (left + right) \div 2
         IN  IF lt(pivot, At(a, mid))
             THEN BinarySortSearch(a, pivot, left, mid)
             ELSE BinarySortSearch(a, pivot, mid + 1, right)
    ELSE [left |-> left, right |-> right]

\* a plausible slip: the pivot changes places with a[left], nothing slides
BinarySortPlaceSwap(a, pivot, left, n) == Put(Put(a, left + n, At(a, left)), left, pivot)

\* slide a[left .. left+n) one to the right and put the pivot at left
BinarySortPlace(a, pivot, left, n) ==
    LET moved ==
            IF n <= 2
            THEN LET a1 == IF n = 2 THEN Put(a, left + 2, At(a, left + 1)) ELSE a
                 IN  IF n > 0 THEN Put(a1, left + 1, At(a1, left)) ELSE a1
            ELSE Copy(a, left + 1, a, left, n)
    IN  Put(moved, left, pivot)

\* the loop: for ; start < hi; start++
RECURSIVE BinarySortLoop(_, _, _, _)
BinarySortLoop(a, lo, hi, start) ==
    IF start < hi
    THEN LET pivot == At(a, start)
         IN  IF lo > start
             THEN [a |-> a, err |-> "left <= right"]
             ELSE LET s == BinarySortSearch(a, pivot, lo, start)
                  IN  IF s.left # s.right
                      THEN [a |-> a, err |-> "left == right"]
                      ELSE BinarySortLoop(
                               BinarySortPlace(a, pivot, s.left, start - s.left),
                               lo, hi, start + 1)
    ELSE [a |-> a, err |-> Nil]

\* binarySort that leaves the range as it finds it
binarySortSkip(a, lo, hi, start) == [a |-> a, err |-> Nil]

binarySort(a, lo, hi, start) ==
    IF lo > start \/ start > hi
    THEN [a |-> a, err |-> "lo <= start && start <= hi"]
    ELSE BinarySortLoop(a, lo, hi, IF start = lo THEN start + 1 ELSE start)

(***************************************************************************)
(* countRunAndMakeAscending, reverseRange                                  *)
(***************************************************************************)
RECURSIVE reverseLoop(_, _, _)
reverseLoop(a, lo, hi) ==
    IF lo < hi
    THEN reverseLoop(Put(Put(a, lo, At(a, hi)), hi, At(a, lo)), lo + 1, hi - 1)
    ELSE a

\* a plausible slip: the descending run is left as it is
reverseRangeNot(a, lo, hi) == a

reverseRange(a, lo, hi) == reverseLoop(a, lo, hi - 1)

\* for runHi < hi && a[runHi] < a[runHi-1] { runHi++ }
RECURSIVE DescendingEnd(_, _, _)
DescendingEnd(a, runHi, hi) ==
    IF runHi < hi /\ lt(At(a, runHi), At(a, runHi - 1))
    THEN DescendingEnd(a, runHi + 1, hi)
    ELSE runHi

\* a plausible slip: an ascending run ends at an equal neighbour
RECURSIVE AscendingEndStrict(_, _, _)
AscendingEndStrict(a, runHi, hi) ==
    IF runHi < hi /\ lt(At(a, runHi - 1), At(a, runHi))
    THEN AscendingEndStrict(a, runHi + 1, hi)
    ELSE runHi

\* for runHi < hi && !(a[runHi] < a[runHi-1]) { runHi++ }
RECURSIVE AscendingEnd(_, _, _)
AscendingEnd(a, runHi, hi) ==
    IF runHi < hi /\ ~lt(At(a, runHi), At(a, runHi - 1))
    THEN AscendingEnd(a, runHi + 1, hi)
    ELSE runHi

\* a plausible slip: a descending run may hold equal neighbours
RECURSIVE DescendingEndLE(_, _, _)
DescendingEndLE(a, runHi, hi) ==
    IF runHi < hi /\ ~lt(At(a, runHi - 1), At(a, runHi))
    THEN DescendingEndLE(a, runHi + 1, hi)
    ELSE runHi

countRunLE(a, lo, hi) ==
    IF lo >= hi THEN [a |-> a, n |-> 0, err |-> "lo < hi"]
    ELSE IF lo + 1 = hi THEN [a |-> a, n |-> 1, err |-> Nil]
    ELSE IF ~lt(At(a, lo), At(a, lo + 1))
         THEN LET runHi == DescendingEndLE(a, lo + 2, hi)
              IN  [a |-> reverseRange(a, lo, runHi), n |-> runHi - lo, err |-> Nil]
         ELSE LET runHi == AscendingEnd(a, lo + 1, hi)
              IN  [a |-> a, n |-> runHi - lo, err |-> Nil]

countRunAndMakeAscending(a, lo, hi) ==
    IF lo >= hi THEN [a |-> a, n |-> 0, err |-> "lo < hi"]
    ELSE IF lo + 1 = hi THEN [a |-> a, n |-> 1, err |-> Nil]
    ELSE IF lt(At(a, lo + 1), At(a, lo))
         THEN LET runHi == DescendingEnd(a, lo + 2, hi)
              IN  [a |-> reverseRange(a, lo, runHi), n |-> runHi - lo, err |-> Nil]
         ELSE LET runHi == AscendingEnd(a, lo + 1, hi)
              IN  [a |-> a, n |-> runHi - lo, err |-> Nil]

(***************************************************************************)
(* minRunLength                                                            *)
(***************************************************************************)
\* a plausible slip: the bits shifted off are forgotten
RECURSIVE minRunLoopFloor(_, _)
minRunLoopFloor(n, r) ==
    IF n >= minMerge
    THEN minRunLoopFloor(n \div 2, 0)
    ELSE n + r

\* for n >= minMerge { r |= (n & 1); n >>= 1 }; return n + r
RECURSIVE minRunLoop(_, _)
minRunLoop(n, r) ==
    IF n >= minMerge
    THEN minRunLoop(n \div 2, BitOr(r, n % 2))
    ELSE n + r

minRunLength(n) ==
    IF n < 0 THEN [n |-> 0, err |-> "n >= 0"]
    ELSE [n |-> minRunLoop(n, 0), err |-> Nil]

(***************************************************************************)
(* gallopLeft, gallopRight.  The result is [k, err].                       *)
(* ofs = (ofs << 1) + 1 cannot wrap around for the lengths of the model;   *)
(* the test ofs <= 0 is kept as written.                                   *)
(***************************************************************************)
NextOfs(ofs, maxOfs) ==
    LET o == ofs * 2 + 1 IN IF o <= 0 THEN maxOfs ELSE o

\* gallopLeft, a[base+hint] < key: for ofs < maxOfs && a[base+hint+ofs] < key
RECURSIVE GallopLeftUp(_, _, _, _, _, _)
GallopLeftUp(key, a, from, maxOfs, lastOfs, ofs) ==
    IF ofs < maxOfs /\ lt(At(a, from + ofs), key)
    THEN GallopLeftUp(key, a, from, maxOfs, ofs, NextOfs(ofs, maxOfs))
    ELSE [lastOfs |-> lastOfs, ofs |-> ofs]

\* gallopLeft, otherwise: for ofs < maxOfs && !(a[base+hint-ofs] < key)
RECURSIVE GallopLeftDown(_, _, _, _, _, _)
GallopLeftDown(key, a, from, maxOfs, lastOfs, ofs) ==
    IF ofs < maxOfs /\ ~lt(At(a, from - ofs), key)
    THEN GallopLeftDown(key, a, from, maxOfs, ofs, NextOfs(ofs, maxOfs))
    ELSE [lastOfs |-> lastOfs, ofs |-> ofs]

\* a plausible slip: the search of gallopRight, which passes the equals
RECURSIVE GallopLeftSearchLE(_, _, _, _, _)
GallopLeftSearchLE(key, a, base, lastOfs, ofs) ==
    IF lastOfs < ofs
    THEN LET m == lastOfs + (ofs - lastOfs) \div 2
         IN  IF ~lt(key, At(a, base + m))
             THEN GallopLeftSearchLE(key, a, base, m + 1, ofs)
             ELSE GallopLeftSearchLE(key, a, base, lastOfs, m)
    ELSE [lastOfs |-> lastOfs, ofs |-> ofs]

\* gallopLeft's binary search: a[base+m] < key moves lastOfs up
RECURSIVE GallopLeftSearch(_, _, _, _, _)
GallopLeftSearch(key, a, base, lastOfs, ofs) ==
    IF lastOfs < ofs
    THEN LET m == lastOfs + (ofs - lastOfs) \div 2
         IN  IF lt(At(a, base + m), key)
             THEN GallopLeftSearch(key, a, base, m + 1, ofs)
             ELSE GallopLeftSearch(key, a, base, lastOfs, m)
    ELSE [lastOfs |-> lastOfs, ofs |-> ofs]

gallopLeft(key, a, base, len, hint) ==
    IF len <= 0 \/ hint < 0 \/ hint >= len
    THEN [k |-> 0, err |-> "len > 0 && hint >= 0 && hint < len"]
    ELSE
    LET g == IF lt(At(a, base + hint), key)
             THEN LET maxOfs == len - hint
                      r == GallopLeftUp(key, a, base + hint, maxOfs, 0, 1)
                  IN  [lastOfs |-> r.lastOfs + hint,
                       ofs |-> Min(r.ofs, maxOfs) + hint]
             ELSE LET maxOfs == hint + 1
                      r == GallopLeftDown(key, a, base + hint, maxOfs, 0, 1)
                  IN  [lastOfs |-> hint - Min(r.ofs, maxOfs),
                       ofs |-> hint - r.lastOfs]
    IN  IF -1 > g.lastOfs \/ g.lastOfs >= g.ofs \/ g.ofs > len
        THEN [k |-> 0, err |-> "-1 <= lastOfs && lastOfs < ofs && ofs <= len"]
        ELSE LET b == GallopLeftSearch(key, a, base, g.lastOfs + 1, g.ofs)
             IN  IF b.lastOfs # b.ofs
                 THEN [k |-> 0, err |-> "lastOfs == ofs"]
                 ELSE [k |-> b.ofs, err |-> Nil]

\* gallopRight, key < a[base+hint]: for ofs < maxOfs && key < a[base+hint-ofs]
RECURSIVE GallopRightDown(_, _, _, _, _, _)
GallopRightDown(key, a, from, maxOfs, lastOfs, ofs) ==
    IF ofs < maxOfs /\ lt(key, At(a, from - ofs))
    THEN GallopRightDown(key, a, from, maxOfs, ofs, NextOfs(ofs, maxOfs))
    ELSE [lastOfs |-> lastOfs, ofs |-> ofs]

\* gallopRight, otherwise: for ofs < maxOfs && !(key < a[base+hint+ofs])
RECURSIVE GallopRightUp(_, _, _, _, _, _)
GallopRightUp(key, a, from, maxOfs, lastOfs, ofs) ==
    IF ofs < maxOfs /\ ~lt(key, At(a, from + ofs))
    THEN GallopRightUp(key, a, from, maxOfs, ofs, NextOfs(ofs, maxOfs))
    ELSE [lastOfs |-> lastOfs, ofs |-> ofs]

\* a plausible slip: the search of gallopLeft, which stops before the equals
RECURSIVE GallopRightSearchLT(_, _, _, _, _)
GallopRightSearchLT(key, a, base, lastOfs, ofs) ==
    IF lastOfs < ofs
    THEN LET m == lastOfs + (ofs - lastOfs) \div 2
         IN  IF ~lt(At(a, base + m), key)
             THEN GallopRightSearchLT(key, a, base, lastOfs, m)
             ELSE GallopRightSearchLT(key, a, base, m + 1, ofs)
    ELSE [lastOfs |-> lastOfs, ofs |-> ofs]

\* gallopRight's binary search: key < a[base+m] moves ofs down
RECURSIVE GallopRightSearch(_, _, _, _, _)
GallopRightSearch(key, a, base, lastOfs, ofs) ==
    IF lastOfs < ofs
    THEN LET m == lastOfs + (ofs - lastOfs) \div 2
         IN  IF lt(key, At(a, base + m))
             THEN GallopRightSearch(key, a, base, lastOfs, m)
             ELSE GallopRightSearch(key, a, base, m + 1, ofs)
    ELSE [lastOfs |-> lastOfs, ofs |-> ofs]

gallopRight(key, a, base, len, hint) ==
    IF len <= 0 \/ hint < 0 \/ hint >= len
    THEN [k |-> 0, err |-> "len > 0 && hint >= 0 && hint < len"]
    ELSE
    LET g == IF lt(key, At(a, base + hint))
             THEN LET maxOfs == hint + 1
                      r == GallopRightDown(key, a, base + hint, maxOfs, 0, 1)
                  IN  [lastOfs |-> hint - Min(r.ofs, maxOfs),
                       ofs |-> hint - r.lastOfs]
             ELSE LET maxOfs == len - hint
                      r == GallopRightUp(key, a, base + hint, maxOfs, 0, 1)
                  IN  [lastOfs |-> r.lastOfs + hint,
                       ofs |-> Min(r.ofs, maxOfs) + hint]
    IN  IF -1 > g.lastOfs \/ g.lastOfs >= g.ofs \/ g.ofs > len
        THEN [k |-> 0, err |-> "-1 <= lastOfs && lastOfs < ofs && ofs <= len"]
        ELSE LET b == GallopRightSearch(key, a, base, g.lastOfs + 1, g.ofs)
             IN  IF b.lastOfs # b.ofs
                 THEN [k |-> 0, err |-> "lastOfs == ofs"]
                 ELSE [k |-> b.ofs, err |-> Nil]

(***************************************************************************)
(* The timSortHandler: [minGallop, tmp, stackSize, runBase, runLen].       *)
(***************************************************************************)
NoHandler ==
    [minGallop |-> 0, tmp |-> <<>>, stackSize |-> 0, runBase |-> <<>>, runLen |-> <<>>]

\* the stack length newTimSort picks
stackLenOf(len) ==
    IF len < 120 THEN 5
    ELSE IF len < 1542 THEN 10
    ELSE IF len < largeLen THEN 19
    ELSE 40

newTimSort(a) ==
    LET len == Len(a)
        tmpSize == IF len < 2 * initialTmpStorageLength
                   THEN len \div 2
                   ELSE initialTmpStorageLength
        stackLen == stackLenOf(len)
    IN  [minGallop |-> initialMinGallop,
         tmp       |-> MakeSlice(tmpSize),
         stackSize |-> 0,
         runBase   |-> MakeInts(stackLen),
         runLen    |-> MakeInts(stackLen)]

\* pushRun; the caller has checked that stackSize indexes the stack
pushRun(h, runBase, runLen) ==
    [h EXCEPT !.runBase = Put(h.runBase, h.stackSize, runBase),
              !.runLen = Put(h.runLen, h.stackSize, runLen),
              !.stackSize = h.stackSize + 1]

\* newSize |= newSize >> s
OrShift(x, s) == BitOr(x, x \div (2 ^ s))

\* a plausible slip: the new size is not cut down to half the array
ensureCapacityUncapped(h, lenA, minCapacity) ==
    IF Len(h.tmp) < minCapacity
    THEN [h EXCEPT !.tmp = MakeSlice(OrShift(OrShift(OrShift(OrShift(OrShift(
                                 minCapacity, 1), 2), 4), 8), 16) + 1)]
    ELSE h

\* ensureCapacity: the handler with tmp grown if it was too short.
\* newSize++ cannot wrap around for the lengths of the model.
ensureCapacity(h, lenA, minCapacity) ==
    IF Len(h.tmp) < minCapacity
    THEN LET p == OrShift(OrShift(OrShift(OrShift(OrShift(
                      minCapacity, 1), 2), 4), 8), 16) + 1
             newSize == IF p < 0 THEN minCapacity ELSE Min(p, lenA \div 2)
         IN  [h EXCEPT !.tmp = MakeSlice(newSize)]
    ELSE h

(***************************************************************************)
(* mergeLo.  The locals of the call are a record                           *)
(*   [a, tmp, cursor1, cursor2, dest, len1, len2, minGallop,               *)
(*    count1, count2, at, err, hMinGallop, galloped]                       *)
(* where `at` is the place in the function ("linear" and "gallop" are the  *)
(* two inner loops, "out" is after the outer loop, "ret" is returned),     *)
(* hMinGallop is the field h.minGallop, and galloped tells whether the     *)
(* gallop loop was entered.                                                *)
(***************************************************************************)
\* one pass of the first inner loop of mergeLo
MergeLoLinear(m) ==
    IF m.len1 <= 1 \/ m.len2 <= 0
    THEN [m EXCEPT !.at = "ret", !.err = "len1 > 1 && len2 > 0"]
    ELSE
    LET n == IF lt(At(m.a, m.cursor2), At(m.tmp, m.cursor1))
             THEN [m EXCEPT !.a = Put(m.a, m.dest, At(m.a, m.cursor2)),
                            !.dest = m.dest + 1,
                            !.cursor2 = m.cursor2 + 1,
                            !.count2 = m.count2 + 1,
                            !.count1 = 0,
                            !.len2 = m.len2 - 1]
             ELSE [m EXCEPT !.a = Put(m.a, m.dest, At(m.tmp, m.cursor1)),
                            !.dest = m.dest + 1,
                            !.cursor1 = m.cursor1 + 1,
                            !.count1 = m.count1 + 1,
                            !.count2 = 0,
                            !.len1 = m.len1 - 1]
        brk == IF lt(At(m.a, m.cursor2), At(m.tmp, m.cursor1))
               THEN n.len2 = 0
               ELSE n.len1 = 1
    IN  IF brk THEN [n EXCEPT !.at = "out"]
        ELSE IF BitOr(n.count1, n.count2) >= n.minGallop
             THEN [n EXCEPT !.at = "gallop", !.galloped = TRUE]
             ELSE n

\* leaving the gallop loop: penalise, and start the outer loop over
MergeLeaveGallop(m) ==
    [m EXCEPT !.minGallop = (IF m.minGallop < 0 THEN 0 ELSE m.minGallop) + 2,
              !.count1 = 0,
              !.count2 = 0,
              !.at = "linear"]

\* the end of a pass of the gallop loop: a[dest] = tmp[cursor1] ... minGallop--
MergeLoGallopEnd(m) ==
    LET n == [m EXCEPT !.a = Put(m.a, m.dest, At(m.tmp, m.cursor1)),
                       !.dest = m.dest + 1,
                       !.cursor1 = m.cursor1 + 1,
                       !.len1 = m.len1 - 1]
    IN  IF n.len1 = 1 THEN [n EXCEPT !.at = "out"]
        ELSE LET d == [n EXCEPT !.minGallop = n.minGallop - 1]
             IN  IF d.count1 < d.minGallop /\ d.count2 < d.minGallop
                 THEN MergeLeaveGallop(d)
                 ELSE d

\* the second half of a pass: count2 = gallopLeft(tmp[cursor1], a, cursor2, len2, 0)
MergeLoCount2(m, g) ==
        IF g.err # Nil THEN [m EXCEPT !.at = "ret", !.err = g.err]
        ELSE IF g.k # 0
        THEN LET n == [m EXCEPT !.count2 = g.k,
                                !.a = Copy(m.a, m.dest, m.a, m.cursor2, g.k),
                                !.dest = m.dest + g.k,
                                !.cursor2 = m.cursor2 + g.k,
                                !.len2 = m.len2 - g.k]
             IN  IF n.len2 = 0 THEN [n EXCEPT !.at = "out"]
                 ELSE MergeLoGallopEnd(n)
        ELSE MergeLoGallopEnd([m EXCEPT !.count2 = 0])

MergeLoGallopRun2(m) ==
    MergeLoCount2(m, gallopLeft(At(m.tmp, m.cursor1), m.a, m.cursor2, m.len2, 0))

\* the middle of a pass: a[dest] = a[cursor2] ...
MergeLoGallopMid(m) ==
    LET n == [m EXCEPT !.a = Put(m.a, m.dest, At(m.a, m.cursor2)),
                       !.dest = m.dest + 1,
                       !.cursor2 = m.cursor2 + 1,
                       !.len2 = m.len2 - 1]
    IN  IF n.len2 = 0 THEN [n EXCEPT !.at = "out"]
        ELSE MergeLoGallopRun2(n)

\* one pass of the second inner loop of mergeLo
MergeLoCount1(m, g) ==
        IF g.err # Nil THEN [m EXCEPT !.at = "ret", !.err = g.err]
        ELSE IF g.k # 0
        THEN LET n == [m EXCEPT !.count1 = g.k,
                                !.a = Copy(m.a, m.dest, m.tmp, m.cursor1, g.k),
                                !.dest = m.dest + g.k,
                                !.cursor1 = m.cursor1 + g.k,
                                !.len1 = m.len1 - g.k]
             IN  IF n.len1 <= 1 THEN [n EXCEPT !.at = "out"]
                 ELSE MergeLoGallopMid(n)
        ELSE MergeLoGallopMid([m EXCEPT !.count1 = 0])

\* a plausible slip: gallopLeft where gallopRight is due, which lets an
\* element of run 2 pass the elements of run 1 equivalent to it
MergeLoGallopLeft(m) ==
    IF m.len1 <= 1 \/ m.len2 <= 0
    THEN [m EXCEPT !.at = "ret", !.err = "len1 > 1 && len2 > 0"]
    ELSE MergeLoCount1(m, gallopLeft(At(m.a, m.cursor2), m.tmp, m.cursor1,
                                     m.len1, 0))

MergeLoGallop(m) ==
    IF m.len1 <= 1 \/ m.len2 <= 0
    THEN [m EXCEPT !.at = "ret", !.err = "len1 > 1 && len2 > 0"]
    ELSE MergeLoCount1(m, gallopRight(At(m.a, m.cursor2), m.tmp, m.cursor1,
                                      m.len1, 0))

\* after the outer loop of mergeLo
MergeLoOut(m) ==
    LET n == [m EXCEPT !.minGallop = IF m.minGallop < 1 THEN 1 ELSE m.minGallop,
                       !.hMinGallop = IF m.minGallop < 1 THEN 1 ELSE m.minGallop,
                       !.at = "ret"]
    IN  IF n.len1 = 1
        THEN IF n.len2 <= 0 THEN [n EXCEPT !.err = "len2 > 0"]
             ELSE [n EXCEPT !.a = Put(Copy(n.a, n.dest, n.a, n.cursor2, n.len2),
                                      n.dest + n.len2, At(n.tmp, n.cursor1))]
        ELSE IF n.len1 = 0
        THEN [n EXCEPT !.err = "comparison method violates its general contract"]
        ELSE IF n.len2 # 0 THEN [n EXCEPT !.err = "len2 == 0"]
        ELSE IF n.len1 <= 1 THEN [n EXCEPT !.err = "len1 > 1"]
        ELSE [n EXCEPT !.a = Copy(n.a, n.dest, n.tmp, n.cursor1, n.len1)]

RECURSIVE MergeLoRun(_)
MergeLoRun(m) ==
    IF m.at = "ret" THEN m
    ELSE IF m.at = "linear" THEN MergeLoRun(MergeLoLinear(m))
    ELSE IF m.at = "gallop" THEN MergeLoRun(MergeLoGallop(m))
    ELSE MergeLoRun(MergeLoOut(m))

\* what a merge hands back: the handler, the array, the error, and how it ran
MergeResult(h, a, e, how) == [h |-> h, a |-> a, err |-> e, how |-> how]

\* the merge loop is over: the handler takes minGallop back
MergeLoDone(hh, m) ==
    MergeResult([hh EXCEPT !.minGallop = m.hMinGallop], m.a, m.err,
                IF m.galloped THEN "lo-gallop" ELSE "lo-linear")

\* mergeLo after ensureCapacity, h being the handler with its tmp grown
MergeLoCopy(h, a0, base1, len1, base2, len2) ==
    LET \* copy(tmp, a[base1:base1+len1]) copies min(len(tmp), len1) elements
        tmp == Copy(h.tmp, 0, a0, base1, Min(Len(h.tmp), len1))
        a1 == Put(a0, base1, At(a0, base2))
        dest == base1 + 1
        cursor2 == base2 + 1
        l2 == len2 - 1
        hh == [h EXCEPT !.tmp = tmp]
    IN  IF l2 = 0
        THEN MergeResult(hh, Copy(a1, dest, tmp, 0, len1), Nil, "lo-short")
        ELSE IF len1 = 1
        THEN MergeResult(hh, Put(Copy(a1, dest, a1, cursor2, l2), dest + l2,
                                 At(tmp, 0)), Nil, "lo-short")
        ELSE MergeLoDone(hh, MergeLoRun([a |-> a1, tmp |-> tmp, cursor1 |-> 0,
                                         cursor2 |-> cursor2, dest |-> dest,
                                         len1 |-> len1, len2 |-> l2,
                                         minGallop |-> h.minGallop,
                                         count1 |-> 0, count2 |-> 0,
                                         at |-> "linear", err |-> Nil,
                                         hMinGallop |-> h.minGallop,
                                         galloped |-> FALSE]))

mergeLo(h0, a0, base1, len1, base2, len2) ==
    IF len1 <= 0 \/ len2 <= 0 \/ base1 + len1 # base2
    THEN MergeResult(h0, a0, "len1 > 0 && len2 > 0 && base1 + len1 == base2", "lo")
    ELSE MergeLoCopy(ensureCapacity(h0, Len(a0), len1), a0, base1, len1, base2, len2)

(***************************************************************************)
(* mergeHi.  The locals are those of mergeLo and base1; cursor1 and dest   *)
(* index a from the right, cursor2 indexes tmp.                            *)
(***************************************************************************)
\* one pass of the first inner loop of mergeHi
MergeHiLinear(m) ==
    IF m.len1 <= 0 \/ m.len2 <= 1
    THEN [m EXCEPT !.at = "ret", !.err = "len1 > 0 && len2 > 1"]
    ELSE
    LET n == IF lt(At(m.tmp, m.cursor2), At(m.a, m.cursor1))
             THEN [m EXCEPT !.a = Put(m.a, m.dest, At(m.a, m.cursor1)),
                            !.dest = m.dest - 1,
                            !.cursor1 = m.cursor1 - 1,
                            !.count1 = m.count1 + 1,
                            !.count2 = 0,
                            !.len1 = m.len1 - 1]
             ELSE [m EXCEPT !.a = Put(m.a, m.dest, At(m.tmp, m.cursor2)),
                            !.dest = m.dest - 1,
                            !.cursor2 = m.cursor2 - 1,
                            !.count2 = m.count2 + 1,
                            !.count1 = 0,
                            !.len2 = m.len2 - 1]
        brk == IF lt(At(m.tmp, m.cursor2), At(m.a, m.cursor1))
               THEN n.len1 = 0
               ELSE n.len2 = 1
    IN  IF brk THEN [n EXCEPT !.at = "out"]
        ELSE IF BitOr(n.count1, n.count2) >= n.minGallop
             THEN [n EXCEPT !.at = "gallop", !.galloped = TRUE]
             ELSE n

\* the end of a pass of the gallop loop: a[dest] = a[cursor1] ... minGallop--
MergeHiGallopEnd(m) ==
    LET n == [m EXCEPT !.a = Put(m.a, m.dest, At(m.a, m.cursor1)),
                       !.dest = m.dest - 1,
                       !.cursor1 = m.cursor1 - 1,
                       !.len1 = m.len1 - 1]
    IN  IF n.len1 = 0 THEN [n EXCEPT !.at = "out"]
        ELSE LET d == [n EXCEPT !.minGallop = n.minGallop - 1]
             IN  IF d.count1 < d.minGallop /\ d.count2 < d.minGallop
                 THEN MergeLeaveGallop(d)
                 ELSE d

\* the second half: count2 = len2 - gallopLeft(a[cursor1], tmp, 0, len2, len2-1)
MergeHiCount2(m, g) ==
    LET c == m.len2 - g.k
    IN  IF g.err # Nil THEN [m EXCEPT !.at = "ret", !.err = g.err]
        ELSE IF c # 0
        THEN LET n == [m EXCEPT !.count2 = c,
                                !.dest = m.dest - c,
                                !.cursor2 = m.cursor2 - c,
                                !.len2 = m.len2 - c,
                                !.a = Copy(m.a, m.dest - c + 1, m.tmp,
                                           m.cursor2 - c + 1, c)]
             IN  IF n.len2 <= 1 THEN [n EXCEPT !.at = "out"]
                 ELSE MergeHiGallopEnd(n)
        ELSE MergeHiGallopEnd([m EXCEPT !.count2 = 0])

MergeHiGallopRun2(m) ==
    MergeHiCount2(m, gallopLeft(At(m.a, m.cursor1), m.tmp, 0, m.len2, m.len2 - 1))

\* the middle of a pass: a[dest] = tmp[cursor2] ...
MergeHiGallopMid(m) ==
    LET n == [m EXCEPT !.a = Put(m.a, m.dest, At(m.tmp, m.cursor2)),
                       !.dest = m.dest - 1,
                       !.cursor2 = m.cursor2 - 1,
                       !.len2 = m.len2 - 1]
    IN  IF n.len2 = 1 THEN [n EXCEPT !.at = "out"]
        ELSE MergeHiGallopRun2(n)

\* one pass of the second inner loop of mergeHi
MergeHiCount1(m, g) ==
    LET c == m.len1 - g.k
    IN  IF g.err # Nil THEN [m EXCEPT !.at = "ret", !.err = g.err]
        ELSE IF c # 0
        THEN LET n == [m EXCEPT !.count1 = c,
                                !.dest = m.dest - c,
                                !.cursor1 = m.cursor1 - c,
                                !.len1 = m.len1 - c,
                                !.a = Copy(m.a, m.dest - c + 1, m.a,
                                           m.cursor1 - c + 1, c)]
             IN  IF n.len1 = 0 THEN [n EXCEPT !.at = "out"]
                 ELSE MergeHiGallopMid(n)
        ELSE MergeHiGallopMid([m EXCEPT !.count1 = 0])

MergeHiGallop(m) ==
    IF m.len1 <= 0 \/ m.len2 <= 1
    THEN [m EXCEPT !.at = "ret", !.err = "len1 > 0 && len2 > 1"]
    ELSE MergeHiCount1(m, gallopRight(At(m.tmp, m.cursor2), m.a, m.base1,
                                      m.len1, m.len1 - 1))

\* after the outer loop of mergeHi
MergeHiOut(m) ==
    LET n == [m EXCEPT !.minGallop = IF m.minGallop < 1 THEN 1 ELSE m.minGallop,
                       !.hMinGallop = IF m.minGallop < 1 THEN 1 ELSE m.minGallop,
                       !.at = "ret"]
    IN  IF n.len2 = 1
        THEN IF n.len1 <= 0 THEN [n EXCEPT !.err = "len1 > 0"]
             ELSE LET dest == n.dest - n.len1
                      cursor1 == n.cursor1 - n.len1
                  IN  [n EXCEPT !.a = Put(Copy(n.a, dest + 1, n.a, cursor1 + 1, n.len1),
                                          dest, At(n.tmp, n.cursor2))]
        ELSE IF n.len2 = 0
        THEN [n EXCEPT !.err = "comparison method violates its general contract"]
        ELSE IF n.len1 # 0 THEN [n EXCEPT !.err = "len1 == 0"]
        ELSE IF n.len2 <= 0 THEN [n EXCEPT !.err = "len2 > 0"]
        ELSE \* copy(a[dest-(len2-1):dest+1], tmp)
             [n EXCEPT !.a = Copy(n.a, n.dest - (n.len2 - 1), n.tmp, 0,
                                  Min(n.len2, Len(n.tmp)))]

RECURSIVE MergeHiRun(_)
MergeHiRun(m) ==
    IF m.at = "ret" THEN m
    ELSE IF m.at = "linear" THEN MergeHiRun(MergeHiLinear(m))
    ELSE IF m.at = "gallop" THEN MergeHiRun(MergeHiGallop(m))
    ELSE MergeHiRun(MergeHiOut(m))

MergeHiDone(hh, m) ==
    MergeResult([hh EXCEPT !.minGallop = m.hMinGallop], m.a, m.err,
                IF m.galloped THEN "hi-gallop" ELSE "hi-linear")

\* mergeHi after ensureCapacity, h being the handler with its tmp grown
MergeHiCopy(h, a0, base1, len1, base2, len2) ==
    LET \* copy(tmp, a[base2:base2+len2]) copies min(len(tmp), len2) elements
        tmp == Copy(h.tmp, 0, a0, base2, Min(Len(h.tmp), len2))
        a1 == Put(a0, base2 + len2 - 1, At(a0, base1 + len1 - 1))
        dest == base2 + len2 - 2
        cursor1 == base1 + len1 - 2
        cursor2 == len2 - 1
        l1 == len1 - 1
        hh == [h EXCEPT !.tmp = tmp]
    IN  IF l1 = 0
        THEN \* copy(a[dest:dest+len2], tmp) after dest -= len2 - 1
             MergeResult(hh, Copy(a1, dest - (len2 - 1), tmp, 0,
                                  Min(len2, Len(tmp))), Nil, "hi-short")
        ELSE IF len2 = 1
        THEN LET d == dest - (l1 - 1)
                 c == cursor1 - (l1 - 1)
             IN  MergeResult(hh, Put(Copy(a1, d, a1, c, l1), d - 1, At(tmp, cursor2)),
                             Nil, "hi-short")
        ELSE MergeHiDone(hh, MergeHiRun([a |-> a1, tmp |-> tmp,
                                         cursor1 |-> cursor1,
                                         cursor2 |-> cursor2, dest |-> dest,
                                         len1 |-> l1, len2 |-> len2,
                                         base1 |-> base1,
                                         minGallop |-> h.minGallop,
                                         count1 |-> 0, count2 |-> 0,
                                         at |-> "linear", err |-> Nil,
                                         hMinGallop |-> h.minGallop,
                                         galloped |-> FALSE]))

mergeHi(h0, a0, base1, len1, base2, len2) ==
    IF len1 <= 0 \/ len2 <= 0 \/ base1 + len1 # base2
    THEN MergeResult(h0, a0, "len1 > 0 && len2 > 0 && base1 + len1 == base2", "hi")
    ELSE MergeHiCopy(ensureCapacity(h0, Len(a0), len2), a0, base1, len1, base2, len2)

(***************************************************************************)
(* mergeAt(i): the handler's bookkeeping first, then the two trims, then   *)
(* mergeLo or mergeHi.                                                     *)
(***************************************************************************)
\* the second trim: len2 = gallopLeft(a[base1+len1-1], a, base2, len2, len2-1)
MergeAtTrim2(h, a, base1, len1, base2, g) ==
    IF g.err # Nil THEN MergeResult(h, a, g.err, "none")
    ELSE IF g.k < 0 THEN MergeResult(h, a, "len2 >= 0", "none")
    ELSE IF g.k = 0 THEN MergeResult(h, a, Nil, "trim2")
    ELSE IF len1 <= g.k
         THEN mergeLo(h, a, base1, len1, base2, g.k)
         ELSE mergeHi(h, a, base1, len1, base2, g.k)

\* the first trim: k = gallopRight(a[base2], a, base1, len1, 0)
MergeAtTrim1(h, a, base1, len1, base2, len2, g) ==
    IF g.err # Nil THEN MergeResult(h, a, g.err, "none")
    ELSE IF g.k < 0 THEN MergeResult(h, a, "k >= 0", "none")
    ELSE IF len1 - g.k = 0 THEN MergeResult(h, a, Nil, "trim1")
    ELSE MergeAtTrim2(h, a, base1 + g.k, len1 - g.k, base2,
                      gallopLeft(At(a, base1 + len1 - 1), a, base2, len2, len2 - 1))

\* a merge that leaves the run above the two where it is
MergeAtStackNoSlide(h0, i, len1, len2) ==
    [h0 EXCEPT !.runLen = Put(h0.runLen, i, len1 + len2),
               !.stackSize = h0.stackSize - 1]

\* a plausible slip: the merged run is recorded, the stack keeps its size
MergeAtStackKeep(h0, i, len1, len2) ==
    [h0 EXCEPT !.runLen = Put(h0.runLen, i, len1 + len2)]

\* the runs i and i+1 become one on the stack
MergeAtStack(h0, i, len1, len2) ==
    LET rl == Put(h0.runLen, i, len1 + len2)
    IN  [h0 EXCEPT
            !.runLen = IF i = h0.stackSize - 3
                       THEN Put(rl, i + 1, At(h0.runLen, i + 2))
                       ELSE rl,
            !.runBase = IF i = h0.stackSize - 3
                        THEN Put(h0.runBase, i + 1, At(h0.runBase, i + 2))
                        ELSE h0.runBase,
            !.stackSize = h0.stackSize - 1]

MergeAtRuns(h0, a, i, base1, len1, base2, len2) ==
    IF len1 <= 0 \/ len2 <= 0
    THEN MergeResult(h0, a, "len1 > 0 && len2 > 0", "none")
    ELSE IF base1 + len1 # base2
    THEN MergeResult(h0, a, "base1 + len1 == base2", "none")
    ELSE MergeAtTrim1(MergeAtStack(h0, i, len1, len2), a, base1, len1, base2, len2,
                      gallopRight(At(a, base2), a, base1, len1, 0))

mergeAt(h0, a, i) ==
    IF h0.stackSize < 2 THEN MergeResult(h0, a, "stackSize >= 2", "none")
    ELSE IF i < 0 THEN MergeResult(h0, a, "i >= 0", "none")
    ELSE IF i # h0.stackSize - 2 /\ i # h0.stackSize - 3
    THEN MergeResult(h0, a, "i == stackSize - 2 || i == stackSize - 3", "none")
    ELSE MergeAtRuns(h0, a, i, At(h0.runBase, i), At(h0.runLen, i),
                     At(h0.runBase, i + 1), At(h0.runLen, i + 1))

(***************************************************************************)
(* The sorted slices a caller may hold, and the items it may pass.         *)
(***************************************************************************)
Keys == 0 .. MaxKey

\* every non-decreasing key sequence of length n, each element tagged with
\* its position
SortedSlicesOfLen(n) ==
    { [i \in 1 .. n |-> <<ks[i], i>>] :
        ks \in { f \in [1 .. n -> Keys] : \A i \in 1 .. n - 1 : f[i] <= f[i + 1] } }

SortedSlices == UNION { SortedSlicesOfLen(n) : n \in 0 .. MaxLen }

\* the items passed to the calls carry tag 0: no element of an initial slice
\* is equal to one, several may be equivalent to it
Items == { <<k, 0>> : k \in Keys }

\* no sort is running
SortIdle ==
    /\ arr = <<>>
    /\ orig = <<>>
    /\ pc = "idle"
    /\ sortLo = 0
    /\ nRemaining = 0
    /\ minRun = 0
    /\ sortRunLen = 0
    /\ ts = NoHandler
    /\ err = Nil
    /\ merges = <<>>

InitOps ==
    /\ sorted \in SortedSlices
    /\ call = NoCall
    /\ last = NoCall
    /\ SortIdle

\* a panic ends the program
Running == ~call.panic

BinarySearchCall ==
    /\ Running
    /\ \E item \in Items :
         call' = Returned("BinarySearch", sorted, item,
                          ValueTypeBinarySearch(sorted, item), FALSE, sorted)
    /\ last' = call
    /\ UNCHANGED <<sorted, sortVars>>

IndexOfCall ==
    /\ Running
    /\ \E item \in Items : call' = ValueTypeIndexOf(sorted, item)
    /\ last' = call
    /\ UNCHANGED <<sorted, sortVars>>

ContainsCall ==
    /\ Running
    /\ \E item \in Items : call' = ValueTypeContains(sorted, item)
    /\ last' = call
    /\ UNCHANGED <<sorted, sortVars>>

\* sorted = ValueTypeInsert(sorted, item, lt)
InsertCall ==
    /\ Running
    /\ Len(sorted) <= MaxLen
    /\ \E item \in Items :
         /\ call' = ValueTypeInsert(sorted, item)
         /\ sorted' = call'.out
    /\ last' = call
    /\ UNCHANGED sortVars

\* sorted = ValueTypeRemove(sorted, item, lt)
RemoveCall ==
    /\ Running
    /\ \E item \in Items :
         /\ call' = ValueTypeRemove(sorted, item)
         /\ sorted' = call'.out
    /\ last' = call
    /\ UNCHANGED sortVars

NextOps ==
    \/ BinarySearchCall
    \/ IndexOfCall
    \/ ContainsCall
    \/ InsertCall
    \/ RemoveCall

SpecOps == InitOps /\ [][NextOps]_vars

(***************************************************************************)
(* ValueTypeSort as a machine.  One step is: the entry of the function up  *)
(* to the run loop (the whole call for arrays shorter than minMerge); one  *)
(* pass of the run loop up to pushRun; one pass of mergeCollapse's loop;   *)
(* one pass of mergeForceCollapse's loop; the return.                      *)
(***************************************************************************)
\* the keys of a block of len elements, i = 0 .. len-1: steps of BlockUnit
\* equal keys going up, strictly ascending or descending keys, or keys out
\* of order with repetitions
BlockKinds == {"plateau", "asc", "desc", "zigzag"}

\* the kinds that make one natural run
RunKinds == {"plateau", "desc"}

BlockKey(kind, i, len) ==
    CASE kind = "plateau" -> i \div BlockUnit
      [] kind = "asc"     -> i
      [] kind = "desc"    -> len - 1 - i
      [] kind = "zigzag"  -> (i * 5) % 7

BlockLens == { BlockUnit * k : k \in 0 .. MaxUnits }

BlockKeys(kind, len) == [i \in 1 .. len |-> BlockKey(kind, i - 1, len)]

\* every element tagged with its position in the array
Tagged(ks) == [i \in 1 .. Len(ks) |-> <<ks[i], i>>]

SmallArrays ==
    UNION { { Tagged(ks) : ks \in [1 .. n -> Keys] } : n \in 0 .. MaxSmallLen }

\* two blocks of any kind one after another, or three natural runs, each
\* block possibly empty
BlockArrays ==
    { Tagged(BlockKeys(k1, n1) \o BlockKeys(k2, n2)) :
        k1 \in BlockKinds, n1 \in BlockLens, k2 \in BlockKinds, n2 \in BlockLens }
    \cup
    { Tagged(BlockKeys(k1, n1) \o BlockKeys(k2, n2) \o BlockKeys(k3, n3)) :
        k1 \in RunKinds, n1 \in BlockLens, k2 \in RunKinds, n2 \in BlockLens,
        k3 \in RunKinds, n3 \in BlockLens }

\* runs of the given lengths one after another, each ascending and wholly
\* below the run before it
RECURSIVE FallingRuns(_)
FallingRuns(lens) ==
    IF lens = <<>> THEN <<>>
    ELSE LET rest == FallingRuns(Tail(lens))
         IN  [i \in 1 .. Head(lens) |-> Len(rest) + i - 1] \o rest

\* half the tmp that newTimSort makes for a long array
HalfTmp == initialTmpStorageLength \div 2

\* arrays whose merges need a longer tmp: four runs that leave a longer and
\* a shorter run to mergeHi, and eight equal runs that make mergeLo ask for
\* a longer tmp twice
LongArrays ==
    { Tagged(FallingRuns(lens)) :
        lens \in { <<HalfTmp + 7, HalfTmp + 7, HalfTmp + 5, HalfTmp + 3>>,
                   [i \in 1 .. 8 |-> HalfTmp + 4] } }

SortInputs == SmallArrays \cup BlockArrays \cup LongArrays

OpsIdle ==
    /\ sorted = <<>>
    /\ call = NoCall
    /\ last = NoCall

InitSort ==
    /\ arr \in SortInputs
    /\ orig = arr
    /\ pc = "start"
    /\ sortLo = 0
    /\ nRemaining = Len(arr)
    /\ minRun = 0
    /\ sortRunLen = 0
    /\ ts = NoHandler
    /\ err = Nil
    /\ merges = <<>>
    /\ OpsIdle

sortHi == Len(arr)

\* return err
SortReturns(e) ==
    /\ pc' = "done"
    /\ err' = e

\* ValueTypeSort up to the run loop
SortStart ==
    /\ pc = "start"
    /\ IF nRemaining < 2
       THEN /\ SortReturns(Nil)
            /\ UNCHANGED <<arr, minRun, ts>>
       ELSE IF nRemaining < minMerge
       THEN LET c == countRunAndMakeAscending(arr, sortLo, sortHi)
            IN  IF c.err # Nil
                THEN /\ SortReturns(c.err)
                     /\ UNCHANGED <<arr, minRun, ts>>
                ELSE LET b == binarySort(c.a, sortLo, sortHi, sortLo + c.n)
                     IN  /\ SortReturns(b.err)
                         /\ arr' = b.a
                         /\ UNCHANGED <<minRun, ts>>
       ELSE LET r == minRunLength(nRemaining)
            IN  /\ ts' = newTimSort(arr)
                /\ IF r.err # Nil
                   THEN SortReturns(r.err) /\ UNCHANGED minRun
                   ELSE pc' = "run" /\ minRun' = r.n /\ UNCHANGED err
                /\ UNCHANGED arr
    /\ UNCHANGED <<orig, sortLo, nRemaining, sortRunLen, merges, opsVars>>

\* one pass of the run loop: the next run is found, made long enough and pushed
NextRun ==
    /\ pc = "run"
    /\ LET c == countRunAndMakeAscending(arr, sortLo, sortHi)
       IN  IF c.err # Nil
           THEN /\ SortReturns(c.err)
                /\ UNCHANGED <<arr, sortRunLen, ts>>
           ELSE
           LET force == IF nRemaining <= minRun THEN nRemaining ELSE minRun
               b == IF c.n < minRun
                    THEN binarySort(c.a, sortLo, sortLo + force, sortLo + c.n)
                    ELSE [a |-> c.a, err |-> Nil]
               len == IF c.n < minRun THEN force ELSE c.n
           IN  IF b.err # Nil
               THEN /\ SortReturns(b.err)
                    /\ arr' = b.a
                    /\ UNCHANGED <<sortRunLen, ts>>
               ELSE IF ~InRange(ts.runBase, ts.stackSize)
               THEN \* pushRun indexes the stack past its end
                    /\ SortReturns("panic: index out of range")
                    /\ arr' = b.a
                    /\ UNCHANGED <<sortRunLen, ts>>
               ELSE /\ arr' = b.a
                    /\ sortRunLen' = len
                    /\ ts' = pushRun(ts, sortLo, len)
                    /\ pc' = "collapse"
                    /\ UNCHANGED err
    /\ UNCHANGED <<orig, sortLo, nRemaining, minRun, merges, opsVars>>

\* a test that looks at the three runs on top only
CollapseAtTopThree(h) ==
    LET n == h.stackSize - 2
    IN  IF n > 0 /\ At(h.runLen, n - 1) <= At(h.runLen, n) + At(h.runLen, n + 1)
        THEN IF At(h.runLen, n - 1) < At(h.runLen, n + 1) THEN n - 1 ELSE n
        ELSE IF At(h.runLen, n) <= At(h.runLen, n + 1) THEN n
        ELSE -1

\* mergeCollapse's test on the top of the stack: the index to merge at, or
\* -1 when the invariant is established
CollapseAt(h) ==
    LET n == h.stackSize - 2
    IN  IF (n > 0 /\ At(h.runLen, n - 1) <= At(h.runLen, n) + At(h.runLen, n + 1))
           \/ (n > 1 /\ At(h.runLen, n - 2) <= At(h.runLen, n - 1) + At(h.runLen, n))
        THEN IF At(h.runLen, n - 1) < At(h.runLen, n + 1) THEN n - 1 ELSE n
        ELSE IF At(h.runLen, n) <= At(h.runLen, n + 1) THEN n
        ELSE -1

\* the step a mergeAt makes in either collapse loop
Merged(r) ==
    /\ arr' = r.a
    /\ ts' = r.h
    /\ merges' = Append(merges, r.how)
    /\ IF r.err # Nil THEN SortReturns(r.err) ELSE UNCHANGED <<pc, err>>

MergeStep(i) == Merged(mergeAt(ts, arr, i))

\* one pass of mergeCollapse's loop that merges
MergeCollapseMerge ==
    /\ pc = "collapse"
    /\ ts.stackSize > 1
    /\ CollapseAt(ts) >= 0
    /\ MergeStep(CollapseAt(ts))
    /\ UNCHANGED <<orig, sortLo, nRemaining, minRun, sortRunLen, opsVars>>

\* mergeCollapse returns nil; the run loop advances, or ends
MergeCollapseReturn ==
    /\ pc = "collapse"
    /\ (IF ts.stackSize > 1 THEN CollapseAt(ts) < 0 ELSE TRUE)
    /\ sortLo' = sortLo + sortRunLen
    /\ nRemaining' = nRemaining - sortRunLen
    /\ IF nRemaining' # 0
       THEN pc' = "run" /\ UNCHANGED err
       ELSE IF sortLo' # sortHi
            THEN SortReturns("lo must equal hi")
            ELSE pc' = "force" /\ UNCHANGED err
    /\ UNCHANGED <<arr, orig, minRun, sortRunLen, ts, merges, opsVars>>

\* mergeForceCollapse's choice of the index to merge at
ForceAt(h) ==
    LET n == h.stackSize - 2
    IN  IF n > 0 /\ At(h.runLen, n - 1) < At(h.runLen, n + 1) THEN n - 1 ELSE n

\* one pass of mergeForceCollapse's loop
MergeForceCollapseMerge ==
    /\ pc = "force"
    /\ ts.stackSize > 1
    /\ MergeStep(ForceAt(ts))
    /\ UNCHANGED <<orig, sortLo, nRemaining, minRun, sortRunLen, opsVars>>

\* mergeForceCollapse returns nil, and ValueTypeSort returns
SortFinish ==
    /\ pc = "force"
    /\ ts.stackSize <= 1
    /\ SortReturns(IF ts.stackSize # 1 THEN "ts.stackSize != 1" ELSE Nil)
    /\ UNCHANGED <<arr, orig, sortLo, nRemaining, minRun, sortRunLen, ts, merges,
                   opsVars>>

NextSort ==
    \/ SortStart
    \/ NextRun
    \/ MergeCollapseMerge
    \/ MergeCollapseReturn
    \/ MergeForceCollapseMerge
    \/ SortFinish

SpecSort == InitSort /\ [][NextSort]_vars

\* a call of ValueTypeSort that has not returned has a next step: each
\* state before the return satisfies the guard of one of the steps above
SortRunning == pc # "done"

\* the sort as it runs, under weak fairness of NextSort: the goroutine that
\* called ValueTypeSort keeps executing until the call returns.  This is
\* WF_vars(NextSort) written out, with ENABLED <<NextSort>>_vars replaced
\* by SortRunning, the state predicate it is equal to
SpecSortRuns == SpecSort /\ ([]<>(~SortRunning) \/ []<><<NextSort>>_vars)

(***************************************************************************)
(* The run stack on its own.  What the run loop of ValueTypeSort and the   *)
(* two collapse loops do to the stack depends on the lengths of the runs   *)
(* only, so here the array is given by the lengths of the runs the run     *)
(* loop finds in it, one after another.  Lengths are counted in blocks of  *)
(* minMerge/2 = 16 elements and the arrays are those of Block * 2^k        *)
(* elements whose runs are whole blocks: for them minRunLength is exactly  *)
(* one block, and a stack of k runs takes k numbers whatever the array     *)
(* length (Go's int is 64 bits wide on 64-bit platforms, where a slice     *)
(* can hold 2^34 elements).                                                *)
(***************************************************************************)
Block == minMerge \div 2

\* the least run lengths, from the top of the stack down, that mergeCollapse
\* leaves alone: 1, 2, and each next one more than the two above it together
RECURSIVE TightFrom(_, _, _, _)
TightFrom(k, this, next, sum) ==
    IF k = 1 THEN [len |-> this, sum |-> sum + this]
    ELSE TightFrom(k - 1, next, this + next + 1, sum + this)

Tight(k) == TightFrom(k, 1, 2, 0).len

TightSum(k) == IF k = 0 THEN 0 ELSE TightFrom(k, 1, 2, 0).sum

RECURSIVE PowerOfTwoFrom(_, _)
PowerOfTwoFrom(p, least) == IF p >= least THEN p ELSE PowerOfTwoFrom(2 * p, least)

\* the stack lengths of newTimSort
StackLens == { stackLenOf(len) : len \in {0, 120, 1542, largeLen} }

\* the first place after lo in the set cuts
NextCut(cuts, lo) == CHOOSE c \in cuts : c > lo /\ \A d \in cuts : d > lo => c <= d

\* the runs of n blocks from block lo on, cut at the places of the set cuts
RECURSIVE RunsCutAt(_, _, _)
RunsCutAt(n, lo, cuts) ==
    IF lo = n THEN <<>>
    ELSE IF \E c \in cuts : c > lo
    THEN <<NextCut(cuts, lo) - lo>> \o RunsCutAt(n, NextCut(cuts, lo), cuts)
    ELSE <<n - lo>>

\* every way to cut n blocks into runs
RunsOf(n) == { RunsCutAt(n, 0, cuts) : cuts \in SUBSET (1 .. n - 1) }

\* the shortest array with c runs that are never merged and one more run:
\* the first run takes what the others leave, the last one is one block
DeepRuns(c) ==
    <<PowerOfTwoFrom(2, TightSum(c) + 1) - TightSum(c - 1) - 1>>
    \o [i \in 1 .. c - 1 |-> Tight(c - i)] \o <<1>>

\* runs u, x, y, z, w, v and a last one, where the push of v merges z and w
\* and the three runs on top are then in order, while x is not more than the
\* two above it
SplitBlocks(w) == 10 * w + 13

SplitRuns(w) ==
    <<2 * SplitBlocks(w), 4 * w + 6, 3 * w + 4, w + 1, w, w + 2,
      PowerOfTwoFrom(2, 3 * SplitBlocks(w) + 1) - 3 * SplitBlocks(w)>>

\* the arrays: every short one, for each stack length the deep one, and
\* those with the runs that split
RunArrays ==
    UNION { RunsOf(2 ^ k) : k \in 1 .. MaxDoublings }
    \cup { DeepRuns(c) : c \in StackLens }
    \cup { SplitRuns(w) : w \in 2 .. MaxSplit }

\* countRunAndMakeAscending and binarySort at lo: the length of the run there
RECURSIVE RunAt(_, _)
RunAt(runs, lo) == IF lo = 0 THEN Head(runs) ELSE RunAt(Tail(runs), lo - Head(runs))

RECURSIVE BlocksOf(_)
BlocksOf(runs) == IF runs = <<>> THEN 0 ELSE Head(runs) + BlocksOf(Tail(runs))

InitStack ==
    /\ arr \in RunArrays
    /\ orig = arr
    /\ pc = "start"
    /\ sortLo = 0
    /\ nRemaining = BlocksOf(arr)
    /\ minRun = 0
    /\ sortRunLen = 0
    /\ ts = NoHandler
    /\ err = Nil
    /\ merges = <<>>
    /\ OpsIdle

\* newTimSort for an array of n blocks; every length from largeLen on gets
\* the same stack
newRunStack(n) ==
    [NoHandler EXCEPT
        !.minGallop = initialMinGallop,
        !.runBase = MakeInts(stackLenOf(Block * Min(n, largeLen))),
        !.runLen = MakeInts(stackLenOf(Block * Min(n, largeLen)))]

\* minRunLength(Block * n) in blocks, n a power of two: while n >= minMerge
\* the loop halves n and the bit it shifts out is 0, down to Block * 2
BlockMinRun(n) == minRunLength(Block * Min(n, 2)).n \div Block

\* ValueTypeSort up to the run loop, nRemaining >= minMerge
StackStart ==
    /\ pc = "start"
    /\ ts' = newRunStack(nRemaining)
    /\ minRun' = BlockMinRun(nRemaining)
    /\ pc' = "run"
    /\ UNCHANGED <<arr, orig, sortLo, nRemaining, sortRunLen, err, merges, opsVars>>

\* one pass of the run loop: the run at lo is found and pushed
StackNextRun ==
    /\ pc = "run"
    /\ IF ~InRange(ts.runBase, ts.stackSize)
       THEN \* pushRun indexes the stack past its end
            /\ SortReturns("panic: index out of range")
            /\ UNCHANGED <<sortRunLen, ts>>
       ELSE /\ sortRunLen' = RunAt(arr, sortLo)
            /\ ts' = pushRun(ts, sortLo, RunAt(arr, sortLo))
            /\ pc' = "collapse"
            /\ UNCHANGED err
    /\ UNCHANGED <<arr, orig, sortLo, nRemaining, minRun, merges, opsVars>>

\* mergeAt up to the merge of the elements: its checks and the stack
StackMergeAt(h0, i, len1, len2) ==
    IF h0.stackSize < 2 THEN [h |-> h0, err |-> "stackSize >= 2"]
    ELSE IF i < 0 THEN [h |-> h0, err |-> "i >= 0"]
    ELSE IF i # h0.stackSize - 2 /\ i # h0.stackSize - 3
    THEN [h |-> h0, err |-> "i == stackSize - 2 || i == stackSize - 3"]
    ELSE IF len1 <= 0 \/ len2 <= 0
    THEN [h |-> h0, err |-> "len1 > 0 && len2 > 0"]
    ELSE IF At(h0.runBase, i) + len1 # At(h0.runBase, i + 1)
    THEN [h |-> h0, err |-> "base1 + len1 == base2"]
    ELSE [h |-> MergeAtStack(h0, i, len1, len2), err |-> Nil]

StackMerged(r) ==
    /\ ts' = r.h
    /\ IF r.err # Nil THEN SortReturns(r.err) ELSE UNCHANGED <<pc, err>>

StackMergeStep(i) ==
    StackMerged(StackMergeAt(ts, i,
                             IF InRange(ts.runLen, i) THEN At(ts.runLen, i) ELSE 0,
                             IF InRange(ts.runLen, i + 1) THEN At(ts.runLen, i + 1) ELSE 0))

\* one pass of mergeCollapse's loop that merges
StackCollapseMerge ==
    /\ pc = "collapse"
    /\ ts.stackSize > 1
    /\ CollapseAt(ts) >= 0
    /\ StackMergeStep(CollapseAt(ts))
    /\ UNCHANGED <<arr, orig, sortLo, nRemaining, minRun, sortRunLen, merges, opsVars>>

\* mergeCollapse returns nil; the run loop advances, or ends
StackCollapseReturn ==
    /\ pc = "collapse"
    /\ (IF ts.stackSize > 1 THEN CollapseAt(ts) < 0 ELSE TRUE)
    /\ sortLo' = sortLo + sortRunLen
    /\ nRemaining' = nRemaining - sortRunLen
    /\ pc' = IF nRemaining' # 0 THEN "run" ELSE "force"
    /\ UNCHANGED <<arr, orig, minRun, sortRunLen, ts, err, merges, opsVars>>

\* one pass of mergeForceCollapse's loop
StackForceMerge ==
    /\ pc = "force"
    /\ ts.stackSize > 1
    /\ StackMergeStep(ForceAt(ts))
    /\ UNCHANGED <<arr, orig, sortLo, nRemaining, minRun, sortRunLen, merges, opsVars>>

\* mergeForceCollapse returns nil, and ValueTypeSort returns
StackFinish ==
    /\ pc = "force"
    /\ ts.stackSize <= 1
    /\ SortReturns(IF ts.stackSize # 1 THEN "ts.stackSize != 1" ELSE Nil)
    /\ UNCHANGED <<arr, orig, sortLo, nRemaining, minRun, sortRunLen, ts, merges,
                   opsVars>>

NextStack ==
    \/ StackStart
    \/ StackNextRun
    \/ StackCollapseMerge
    \/ StackCollapseReturn
    \/ StackForceMerge
    \/ StackFinish

SpecStack == InitStack /\ [][NextStack]_vars

(***************************************************************************)
(* template/slices.go: the k-way operations.  A slice of slices is a       *)
(* sequence of sequences; the callback of ValueTypeIterateOver is modelled *)
(* by the sequence of the <<item, srcIndex>> it was called with.           *)
(***************************************************************************)
\* for _, src := range sorted { if len(src) > 0 { append(sourceSlices, src) } }
NonEmpty(slices) == SelectSeq(slices, LAMBDA src : Len(src) > 0)

\* append(s[:i], s[i+1:]...)
Cut(s, i) == Slice(s, 0, i) \o Slice(s, i + 1, Len(s))

\* length += len(src) over the sources
RECURSIVE TotalLen(_)
TotalLen(slices) ==
    IF slices = <<>> THEN 0 ELSE Len(Head(slices)) + TotalLen(Tail(slices))

\* sourceSlices[i][indexes[i]]
Current(sourceSlices, indexes, i) == At(At(sourceSlices, i), At(indexes, i))

\* a selection that never looks past the first remaining source
MinSliceFirst(sourceSlices, indexes, sourceSliceCount, i, minSlice) == minSlice

\* for i := 1; i < sourceSliceCount; i++ { if lt(current i, minItem) {...} }
RECURSIVE MinSliceLoop(_, _, _, _, _)
MinSliceLoop(sourceSlices, indexes, sourceSliceCount, i, minSlice) ==
    IF i < sourceSliceCount
    THEN IF lt(Current(sourceSlices, indexes, i),
               Current(sourceSlices, indexes, minSlice))
         THEN MinSliceLoop(sourceSlices, indexes, sourceSliceCount, i + 1, i)
         ELSE MinSliceLoop(sourceSlices, indexes, sourceSliceCount, i + 1, minSlice)
    ELSE minSlice

\* the callbacks of: for i := from; i < len(slice); i++ { callback(slice[i], srcIndex) }
Drain(slice, from, srcIndex) ==
    [i \in 1 .. Len(slice) - from |-> <<slice[from + i], srcIndex>>]

\* the source minSlice is exhausted: it leaves the three slices
IterateOverDrop(m, minSlice, called) ==
    LET sourceSlices == Cut(m.sourceSlices, minSlice)
        indexes == Cut(m.indexes, minSlice)
        sliceIndex == Cut(m.sliceIndex, minSlice)
    IN  IF Len(sourceSlices) = 1
        THEN [m EXCEPT !.calls = called \o Drain(sourceSlices[1], indexes[1],
                                                 sliceIndex[1]),
                       !.done = TRUE]
        ELSE [m EXCEPT !.sourceSlices = sourceSlices,
                       !.indexes = indexes,
                       !.sliceIndex = sliceIndex,
                       !.sourceSliceCount = m.sourceSliceCount - 1,
                       !.calls = called]

\* callback(minItem, sliceIndex[minSlice]); indexes[minSlice]++
IterateOverTake(m, minSlice) ==
    LET called == Append(m.calls, <<Current(m.sourceSlices, m.indexes, minSlice),
                                    At(m.sliceIndex, minSlice)>>)
    IN  IF At(m.indexes, minSlice) + 1 = Len(At(m.sourceSlices, minSlice))
        THEN IterateOverDrop(m, minSlice, called)
        ELSE [m EXCEPT !.indexes = Put(m.indexes, minSlice,
                                       At(m.indexes, minSlice) + 1),
                       !.calls = called]

\* one pass of the for loop of ValueTypeIterateOver
IterateOverPass(m) ==
    IF ~InRange(m.sourceSlices, 0)
    THEN [m EXCEPT !.panic = TRUE, !.done = TRUE]
    ELSE IterateOverTake(m, MinSliceLoop(m.sourceSlices, m.indexes,
                                         m.sourceSliceCount, 1, 0))

RECURSIVE IterateOverLoop(_)
IterateOverLoop(m) == IF m.done THEN m ELSE IterateOverLoop(IterateOverPass(m))

IterateOverFrom(sourceSlices) ==
    IF Len(sourceSlices) = 0 THEN [calls |-> <<>>, panic |-> FALSE]
    ELSE IF Len(sourceSlices) = 1
    THEN \* for i, value := range sourceSlices[0] { callback(value, i) }
         [calls |-> [i \in 1 .. Len(sourceSlices[1]) |->
                         <<sourceSlices[1][i], i - 1>>],
          panic |-> FALSE]
    ELSE IterateOverLoop([sourceSlices |-> sourceSlices,
                          indexes |-> MakeInts(Len(sourceSlices)),
                          sliceIndex |-> [i \in 1 .. Len(sourceSlices) |-> i - 1],
                          sourceSliceCount |-> Len(sourceSlices),
                          calls |-> <<>>,
                          done |-> FALSE,
                          panic |-> FALSE])

\* slices is the argument list, sorted ...[]ValueType
ValueTypeIterateOver(slices) == IterateOverFrom(NonEmpty(slices))

\* a removal of the exhausted source that returns without the final copy
UnionDropNoCopy(m, minSlice, result, index) ==
    [m EXCEPT !.sourceSlices = Cut(m.sourceSlices, minSlice),
              !.indexes = Cut(m.indexes, minSlice),
              !.sourceSliceCount = m.sourceSliceCount - 1,
              !.result = result,
              !.index = index,
              !.done = Len(m.sourceSlices) = 2]

\* ValueTypeUnion: the source minSlice is exhausted; index is already advanced
UnionDrop(m, minSlice, result, index) ==
    LET sourceSlices == Cut(m.sourceSlices, minSlice)
        indexes == Cut(m.indexes, minSlice)
    IN  IF Len(sourceSlices) = 1
        THEN \* copy(result[index:], sourceSlices[0][indexes[0]:])
             [m EXCEPT !.result = Copy(result, index, sourceSlices[1], indexes[1],
                                       Min(Len(result) - index,
                                           Len(sourceSlices[1]) - indexes[1])),
                       !.done = TRUE]
        ELSE [m EXCEPT !.sourceSlices = sourceSlices,
                       !.indexes = indexes,
                       !.sourceSliceCount = m.sourceSliceCount - 1,
                       !.result = result,
                       !.index = index]

\* result[index] = minItem; index++; indexes[minSlice]++
UnionTake(m, minSlice) ==
    IF ~InRange(m.result, m.index)
    THEN [m EXCEPT !.panic = TRUE, !.done = TRUE]
    ELSE IF At(m.indexes, minSlice) + 1 = Len(At(m.sourceSlices, minSlice))
    THEN UnionDrop(m, minSlice,
                   Put(m.result, m.index, Current(m.sourceSlices, m.indexes, minSlice)),
                   m.index + 1)
    ELSE [m EXCEPT !.result = Put(m.result, m.index,
                                  Current(m.sourceSlices, m.indexes, minSlice)),
                   !.index = m.index + 1,
                   !.indexes = Put(m.indexes, minSlice, At(m.indexes, minSlice) + 1)]

\* one pass of the for loop of ValueTypeUnion: sourceSlices[0] is read first
UnionPass(m) ==
    IF ~InRange(m.sourceSlices, 0)
    THEN [m EXCEPT !.panic = TRUE, !.done = TRUE]
    ELSE UnionTake(m, MinSliceLoop(m.sourceSlices, m.indexes,
                                   m.sourceSliceCount, 1, 0))

RECURSIVE UnionLoop(_)
UnionLoop(m) == IF m.done THEN m ELSE UnionLoop(UnionPass(m))

\* result := make([]ValueType, length) ... for { }
UnionMerge(sourceSlices, length) ==
    UnionLoop([sourceSlices |-> sourceSlices,
               indexes |-> MakeInts(Len(sourceSlices)),
               sourceSliceCount |-> Len(sourceSlices),
               result |-> MakeSlice(length),
               index |-> 0,
               done |-> FALSE,
               panic |-> FALSE])

\* what a call that returns a slice hands back; nil is the empty slice
SliceResult(out, panic) == [out |-> out, panic |-> panic]

UnionDone(m) == SliceResult(m.result, m.panic)

UnionFrom(sourceSlices, length) ==
    IF length = 0 THEN SliceResult(<<>>, FALSE)
    ELSE IF Len(sourceSlices) = 1 THEN SliceResult(sourceSlices[1], FALSE)
    ELSE UnionDone(UnionMerge(sourceSlices, length))

ValueTypeUnion(slices) == UnionFrom(NonEmpty(slices), TotalLen(NonEmpty(slices)))

(***************************************************************************)
(* template/slices-comparable-small.go: ValueTypeMerge.  Its loop is the   *)
(* loop of ValueTypeUnion line for line; the test before the loop is on    *)
(* length, not on len(sourceSlices).                                       *)
(***************************************************************************)
MergeFrom(sourceSlices, length) ==
    IF length = 0 THEN SliceResult(<<>>, FALSE)
    ELSE IF length = 1 THEN SliceResult(sourceSlices[1], FALSE)
    ELSE UnionDone(UnionMerge(sourceSlices, length))

ValueTypeMerge(slices) == MergeFrom(NonEmpty(slices), TotalLen(NonEmpty(slices)))

(***************************************************************************)
(* template/slices.go: ValueTypeDifference.                                *)
(***************************************************************************)
RECURSIVE DifferenceLoop(_, _, _, _, _)
DifferenceLoop(sorted1, sorted2, i, j, result) ==
    IF i < Len(sorted1) /\ j < Len(sorted2)
    THEN IF lt(At(sorted1, i), At(sorted2, j))
         THEN DifferenceLoop(sorted1, sorted2, i + 1, j,
                             Append(result, At(sorted1, i)))
         ELSE IF lt(At(sorted2, j), At(sorted1, i))
         THEN DifferenceLoop(sorted1, sorted2, i, j + 1, result)
         ELSE DifferenceLoop(sorted1, sorted2, i + 1, j + 1, result)
    ELSE \* result = append(result, sorted1[i:]...)
         result \o Slice(sorted1, i, Len(sorted1))

ValueTypeDifference(sorted1, sorted2) == DifferenceLoop(sorted1, sorted2, 0, 0, <<>>)

(***************************************************************************)
(* template/slices.go: ValueTypeIntersection.                              *)
(* sort.Slice is not stable: it may leave the slices in any order in which *)
(* the lengths do not decrease.                                            *)
(***************************************************************************)
ByLength(slices) ==
    { [i \in 1 .. Len(slices) |-> slices[f[i]]] : f \in
        { g \in Permutations(1 .. Len(slices)) :
            \A i \in 1 .. Len(slices) - 1 : Len(slices[g[i]]) <= Len(slices[g[i + 1]]) } }

\* a scan that gives up at the first smaller value
CursorScanStuck(other, value, j) ==
    IF j < Len(other) /\ ~lt(At(other, j), value)
    THEN [cursor |-> j,
          how |-> IF lt(value, At(other, j)) THEN "needIncrement" ELSE "found"]
    ELSE [cursor |-> j, how |-> "end"]

\* for j := cursors[i]; j < len(sorted[i]); j++: the value read is the one at
\* cursors[i], which is j on every pass
RECURSIVE CursorScan(_, _, _)
CursorScan(other, value, j) ==
    IF j < Len(other)
    THEN IF lt(At(other, j), value) THEN CursorScan(other, value, j + 1)
         ELSE IF lt(value, At(other, j)) THEN [cursor |-> j, how |-> "needIncrement"]
         ELSE [cursor |-> j, how |-> "found"]
    ELSE [cursor |-> j, how |-> "end"]

RECURSIVE OthersLoop(_, _, _, _)
\* what the scan of sorted[i] decides
OthersStep(ordered, value, i, cursors, scan) ==
    IF scan.how = "needIncrement"
    THEN [cursors |-> Put(cursors, i, scan.cursor),
          needIncrement |-> TRUE, terminate |-> FALSE]
    ELSE IF scan.how = "end"
    THEN [cursors |-> Put(cursors, i, scan.cursor),
          needIncrement |-> FALSE, terminate |-> TRUE]
    ELSE OthersLoop(ordered, value, i + 1, Put(cursors, i, scan.cursor))

\* for i := 1; i < len(sorted); i++
OthersLoop(ordered, value, i, cursors) ==
    IF i < Len(ordered)
    THEN OthersStep(ordered, value, i, cursors,
                    CursorScan(At(ordered, i), value, At(cursors, i)))
    ELSE [cursors |-> cursors, needIncrement |-> FALSE, terminate |-> FALSE]

RECURSIVE ValuesLoop(_, _, _, _)
\* a step that also keeps the values the other slices are already past
ValuesStepKeep(ordered, v, result, others) ==
    IF others.terminate THEN result
    ELSE ValuesLoop(ordered, v + 1, others.cursors,
                    Append(result, At(At(ordered, 0), v)))

ValuesStep(ordered, v, result, others) ==
    IF others.terminate THEN result
    ELSE ValuesLoop(ordered, v + 1, others.cursors,
                    IF others.needIncrement THEN result
                    ELSE Append(result, At(At(ordered, 0), v)))

\* for _, value := range sorted[0]
ValuesLoop(ordered, v, cursors, result) ==
    IF v < Len(At(ordered, 0))
    THEN ValuesStep(ordered, v, result,
                    OthersLoop(ordered, At(At(ordered, 0), v), 1, cursors))
    ELSE result

\* the body after sort.Slice; sorted[0] is read without a check of the length
IntersectionOf(ordered) ==
    IF ~InRange(ordered, 0) THEN SliceResult(<<>>, TRUE)
    ELSE IF Len(At(ordered, 0)) = 0 THEN SliceResult(<<>>, FALSE)
    ELSE SliceResult(ValuesLoop(ordered, 0, MakeInts(Len(ordered)), <<>>), FALSE)

\* every result ValueTypeIntersection can return
ValueTypeIntersection(slices) == { IntersectionOf(ordered) : ordered \in ByLength(slices) }

(***************************************************************************)
(* The k-way calls as a state machine: sorted is the argument list, one    *)
(* action per exported function, one for the body of TestIntersection.     *)
(***************************************************************************)
\* the tag of element i (from 1) of the argument at position p (from 0)
SourceTag(p, i) == p * (MaxLen + 1) + i

\* the position in the argument list an element was passed at
Source(x) == x[2] \div (MaxLen + 1)

KeySeqs ==
    UNION { { f \in [1 .. n -> Keys] : \A i \in 1 .. n - 1 : f[i] <= f[i + 1] } :
            n \in 0 .. MaxLen }

\* the argument list with the key sequences ks, every element tagged
TaggedArgs(ks) ==
    [p \in 1 .. Len(ks) |-> [i \in 1 .. Len(ks[p]) |-> <<ks[p][i], SourceTag(p - 1, i)>>]]

InitSets ==
    /\ \E n \in 0 .. MaxSources : \E ks \in [1 .. n -> KeySeqs] : sorted = TaggedArgs(ks)
    /\ call = NoCall
    /\ last = NoCall
    /\ SortIdle

IterateOverDone(r) == [op |-> "IterateOver", calls |-> r.calls, panic |-> r.panic]

IterateOverCall ==
    /\ Running
    /\ call' = IterateOverDone(ValueTypeIterateOver(sorted))
    /\ UNCHANGED <<sorted, last, sortVars>>

\* a call that returns a slice; args is the argument list after the call
SliceCall(op, r) == [op |-> op, out |-> r.out, panic |-> r.panic, args |-> sorted]

UnionCall ==
    /\ Running
    /\ call' = SliceCall("Union", ValueTypeUnion(sorted))
    /\ UNCHANGED <<sorted, last, sortVars>>

MergeCall ==
    /\ Running
    /\ call' = SliceCall("Merge", ValueTypeMerge(sorted))
    /\ UNCHANGED <<sorted, last, sortVars>>

DifferenceCall ==
    /\ Running
    /\ Len(sorted) = 2
    /\ call' = SliceCall("Difference",
                         SliceResult(ValueTypeDifference(sorted[1], sorted[2]), FALSE))
    /\ UNCHANGED <<sorted, last, sortVars>>

\* the call works on its own copy of the argument list
IntersectionCall ==
    /\ Running
    /\ \E r \in ValueTypeIntersection(sorted) : call' = SliceCall("Intersection", r)
    /\ UNCHANGED <<sorted, last, sortVars>>

\* the property function of TestIntersection from the two differences on
TestIntersectionRun(src1, src2, common) ==
    { [op |-> "TestIntersection", src1 |-> src1, src2 |-> src2, common |-> common,
       out |-> r.out,
       panic |-> r.panic] :
        r \in ValueTypeIntersection(<<ValueTypeUnion(<<src1, common>>).out,
                                      ValueTypeUnion(<<src2, common>>).out>>) }

TestIntersectionCall ==
    /\ Running
    /\ Len(sorted) = 3
    /\ call' \in TestIntersectionRun(ValueTypeDifference(sorted[1], sorted[2]),
                                     sorted[2],
                                     ValueTypeDifference(sorted[3], sorted[2]))
    /\ UNCHANGED <<sorted, last, sortVars>>

NextSets ==
    \/ IterateOverCall
    \/ UnionCall
    \/ MergeCall
    \/ DifferenceCall
    \/ IntersectionCall
    \/ TestIntersectionCall

SpecSets == InitSets /\ [][NextSets]_vars

(***************************************************************************)
(* The functions ValueTypeSort is made of, one call at a time.  arr is the *)
(* array handed to the function, call holds the arguments and what the     *)
(* function returned; binarySort is followed pass by pass of its outer     *)
(* loop.                                                                   *)
(***************************************************************************)
\* a[lo .. hi) is a run: no element is less than the one before it
Ascending(a, lo, hi) == \A i \in lo + 1 .. hi - 1 : ~lt(At(a, i), At(a, i - 1))

\* the non-decreasing key sequences of n keys from lowest up
RECURSIVE SortedFrom(_, _)
SortedFrom(n, lowest) ==
    IF n = 0 THEN { <<>> }
    ELSE UNION { { <<k>> \o s : s \in SortedFrom(n - 1, k) } : k \in lowest .. MaxKey }

\* the runs the gallops search
RunsUpTo(n) == UNION { SortedFrom(m, 0) : m \in 1 .. n }

\* an element that is no part of the merge, then two runs one after the other
MergeArrays ==
    { Tagged((<<MaxKey>> \o r1) \o r2) :
        r1 \in RunsUpTo(MaxMergeLen), r2 \in RunsUpTo(MaxMergeLen) }

InitParts ==
    /\ arr \in SmallArrays \cup { Tagged(r) : r \in RunsUpTo(MaxRunLen) } \cup MergeArrays
    /\ orig = arr
    /\ pc = "part"
    /\ sortLo = 0
    /\ nRemaining = 0
    /\ minRun = 0
    /\ sortRunLen = 0
    /\ ts = NoHandler
    /\ err = Nil
    /\ merges = <<>>
    /\ OpsIdle

\* k, err := gallopLeft(key, a, base, len, hint) on a run
GallopLeftCall ==
    /\ pc = "part"
    /\ Len(arr) <= MaxRunLen
    /\ Ascending(arr, 0, Len(arr))
    /\ \E base \in 0 .. Len(arr) - 1 : \E len \in 1 .. Len(arr) - base :
       \E hint \in 0 .. len - 1 : \E key \in Items :
         LET g == gallopLeft(key, arr, base, len, hint)
         IN  /\ call' = [op |-> "gallopLeft", key |-> key, base |-> base, len |-> len,
                         hint |-> hint, k |-> g.k]
             /\ err' = g.err
    /\ pc' = "done"
    /\ UNCHANGED <<sorted, last, arr, orig, sortLo, nRemaining, minRun, sortRunLen, ts,
                   merges>>

\* k, err := gallopRight(key, a, base, len, hint) on a run
GallopRightCall ==
    /\ pc = "part"
    /\ Len(arr) <= MaxRunLen
    /\ Ascending(arr, 0, Len(arr))
    /\ \E base \in 0 .. Len(arr) - 1 : \E len \in 1 .. Len(arr) - base :
       \E hint \in 0 .. len - 1 : \E key \in Items :
         LET g == gallopRight(key, arr, base, len, hint)
         IN  /\ call' = [op |-> "gallopRight", key |-> key, base |-> base, len |-> len,
                         hint |-> hint, k |-> g.k]
             /\ err' = g.err
    /\ pc' = "done"
    /\ UNCHANGED <<sorted, last, arr, orig, sortLo, nRemaining, minRun, sortRunLen, ts,
                   merges>>

\* runLen, err := countRunAndMakeAscending(a, lo, hi)
CountRunCall ==
    /\ pc = "part"
    /\ Len(arr) <= MaxSmallLen
    /\ \E lo \in 0 .. Len(arr) - 1 : \E hi \in lo + 1 .. Len(arr) :
         LET c == countRunAndMakeAscending(arr, lo, hi)
         IN  /\ call' = [op |-> "countRunAndMakeAscending", lo |-> lo, hi |-> hi,
                         n |-> c.n]
             /\ arr' = c.a
             /\ err' = c.err
    /\ pc' = "done"
    /\ UNCHANGED <<sorted, last, orig, sortLo, nRemaining, minRun, sortRunLen, ts, merges>>

\* binarySort(a, lo, hi, start) up to its loop, a[lo .. start) being a run
BinarySortStart ==
    /\ pc = "part"
    /\ Len(arr) <= MaxSmallLen
    /\ \E lo \in 0 .. Len(arr) : \E hi \in lo .. Len(arr) : \E start \in lo .. hi :
         /\ Ascending(arr, lo, start)
         /\ call' = [op |-> "binarySort", lo |-> lo, hi |-> hi, from |-> start,
                     start |-> IF start = lo THEN start + 1 ELSE start,
                     left |-> -1]
    /\ pc' = "binarySort"
    /\ UNCHANGED <<sorted, last, arr, orig, sortLo, nRemaining, minRun, sortRunLen, ts,
                   err, merges>>

\* one pass of binarySort's loop: the pivot a[start] is put at left
BinarySortPass ==
    /\ pc = "binarySort"
    /\ call.start < call.hi
    /\ LET pivot == At(arr, call.start)
           s == BinarySortSearch(arr, pivot, call.lo, call.start)
       IN  IF call.lo > call.start
           THEN /\ pc' = "done" /\ err' = "left <= right"
                /\ UNCHANGED <<arr, call>>
           ELSE IF s.left # s.right
           THEN /\ pc' = "done" /\ err' = "left == right"
                /\ UNCHANGED <<arr, call>>
           ELSE /\ arr' = BinarySortPlace(arr, pivot, s.left, call.start - s.left)
                /\ call' = [call EXCEPT !.start = call.start + 1, !.left = s.left]
                /\ UNCHANGED <<pc, err>>
    /\ UNCHANGED <<sorted, last, orig, sortLo, nRemaining, minRun, sortRunLen, ts, merges>>

\* the loop is over: return nil
BinarySortReturn ==
    /\ pc = "binarySort"
    /\ call.start >= call.hi
    /\ pc' = "done"
    /\ UNCHANGED <<sorted, call, last, arr, orig, sortLo, nRemaining, minRun, sortRunLen,
                   ts, err, merges>>

\* minRun, err := minRunLength(n); no array is involved
MinRunLengthCall ==
    /\ pc = "part"
    /\ arr = <<>>
    /\ \E n \in -2 .. MaxArrayLen :
         LET r == minRunLength(n)
         IN  /\ call' = [op |-> "minRunLength", n |-> n, k |-> r.n]
             /\ err' = r.err
    /\ pc' = "done"
    /\ UNCHANGED <<sorted, last, arr, orig, sortLo, nRemaining, minRun, sortRunLen, ts,
                   merges>>

\* the handler of a sort of a that found the runs a[0 .. 1), a[1 .. 1+len1),
\* a[1+len1 .. 1+len1+len2) and, when rest > 0, one more run of rest elements
MergeHandler(a, len1, len2, rest, minGallop) ==
    LET h1 == pushRun([newTimSort(a) EXCEPT !.minGallop = minGallop], 0, 1)
        h2 == pushRun(h1, 1, len1)
        h3 == pushRun(h2, 1 + len1, len2)
    IN  IF rest > 0 THEN pushRun(h3, 1 + len1 + len2, rest) ELSE h3

\* err := h.mergeAt(1), the runs 1 and 2 being the top of the stack or
\* having one run above them
MergeAtCall ==
    /\ pc = "part"
    /\ \E len1 \in 1 .. Len(arr) : \E len2 \in 1 .. Len(arr) : \E rest \in 0 .. 1 :
       \E minGallop \in 1 .. MaxGallop :
         /\ 1 + len1 + len2 + rest = Len(arr)
         /\ Ascending(arr, 1, 1 + len1)
         /\ Ascending(arr, 1 + len1, 1 + len1 + len2)
         /\ LET r == mergeAt(MergeHandler(arr, len1, len2, rest, minGallop), arr, 1)
            IN  /\ call' = [op |-> "mergeAt", base1 |-> 1, len1 |-> len1, len2 |-> len2,
                            rest |-> rest, minGallop |-> minGallop]
                /\ arr' = r.a
                /\ ts' = r.h
                /\ err' = r.err
                /\ merges' = <<r.how>>
    /\ pc' = "done"
    /\ UNCHANGED <<sorted, last, orig, sortLo, nRemaining, minRun, sortRunLen>>

NextParts ==
    \/ GallopLeftCall
    \/ GallopRightCall
    \/ CountRunCall
    \/ BinarySortStart
    \/ BinarySortPass
    \/ BinarySortReturn
    \/ MinRunLengthCall
    \/ MergeAtCall

SpecParts == InitParts /\ [][NextParts]_vars

(***************************************************************************)
(* Reference notions the claims are stated with.  None of them uses the    *)
(* operators that model the code.                                          *)
(***************************************************************************)
IsSortedSeq(s) == \A i \in 1 .. Len(s) - 1 : ~lt(s[i + 1], s[i])

Count(s, e) == Cardinality({ i \in 1 .. Len(s) : s[i] = e })

\* the 0-based indices of s whose element is not less than item
NotLess(s, item) == { i \in 0 .. Len(s) - 1 : ~lt(At(s, i), item) }

\* the 0-based indices of s whose element is equivalent to item
Equivalents(s, item) == { i \in 0 .. Len(s) - 1 : Equivalent(At(s, i), item) }

Least(S) == CHOOSE i \in S : \A j \in S : i <= j

\* s without its element at the 0-based index i
Without(s, i) == [k \in 1 .. Len(s) - 1 |-> IF k <= i THEN s[k] ELSE s[k + 1]]

\* The slice a caller holds is sorted in every state.
SortedStaysSorted == IsSortedSeq(sorted)

\* the elements of s, and how a merge of the sort ran
Elements(s) == { s[i] : i \in 1 .. Len(s) }

Ran(how) == \E i \in 1 .. Len(merges) : merges[i] = how

\* the keys of o that are less than k, and those that are not greater
Below(o, k) == Cardinality({ j \in 1 .. Len(o) : o[j][1] < k })

UpTo(o, k) == Cardinality({ j \in 1 .. Len(o) : o[j][1] <= k })

(***************************************************************************)
(* C1: after ValueTypeSort returns, the array is in non-decreasing order   *)
(* and is a permutation of the original array; its keys are those a        *)
(* reference sort puts at each position (position i holds a key k with     *)
(* fewer than i original keys below k and at least i not above k).         *)
(***************************************************************************)
C1_SortedPermutation ==
    pc = "done" =>
        /\ IsSortedSeq(arr)
        /\ Len(arr) = Len(orig)
        /\ Elements(arr) = Elements(orig)
        /\ \A i \in 1 .. Len(arr) :
               /\ Below(orig, arr[i][1]) < i
               /\ i <= UpTo(orig, arr[i][1])

\* a sort of at least minMerge elements that moved elements and ran both
\* merges, one of them galloping
C1_Witness ==
    /\ pc = "done"
    /\ Len(orig) >= minMerge
    /\ arr # orig
    /\ Ran("lo-gallop") \/ Ran("lo-linear")
    /\ Ran("hi-gallop") \/ Ran("hi-linear")
    /\ Ran("lo-gallop") \/ Ran("hi-gallop")

(***************************************************************************)
(* C2: ValueTypeSort is stable.  The tag of an element is its position in  *)
(* the original array and the comparator ignores it; after the sort        *)
(* returns, of two equivalent elements the one with the smaller tag comes  *)
(* first.                                                                  *)
(***************************************************************************)
C2_Stable ==
    pc = "done" =>
        \A i, j \in 1 .. Len(arr) :
            (i < j /\ Equivalent(arr[i], arr[j])) => arr[i][2] < arr[j][2]

\* a sort that reversed a descending run and merged, of an array in which
\* equivalent elements stood apart with a smaller one between them
C2_Witness ==
    /\ pc = "done"
    /\ Len(merges) >= 2
    /\ lt(orig[2], orig[1])
    /\ \E i, j, k \in 1 .. Len(orig) :
           /\ i < k /\ k < j
           /\ Equivalent(orig[i], orig[j])
           /\ lt(orig[k], orig[i])

C5_ContainsIndexOfAgreeWithScan ==
    /\ (call.op = "Contains" /\ Len(call.arg) > 0) =>
           /\ ~call.panic
           /\ call.found <=> (Equivalents(call.arg, call.item) # {})
    /\ (call.op = "IndexOf" /\ Len(call.arg) > 0) =>
           /\ ~call.panic
           /\ IF Equivalents(call.arg, call.item) # {}
              THEN call.idx \in Equivalents(call.arg, call.item)
              ELSE call.idx = -1

\* IndexOf finds an item that has two equivalent elements, right after
\* Contains did not find another item in the same slice
C5_Witness ==
    /\ call.op = "IndexOf"
    /\ Cardinality(Equivalents(call.arg, call.item)) >= 2
    /\ call.idx >= 0
    /\ last.op = "Contains"
    /\ Len(last.arg) > 0
    /\ ~last.found

(***************************************************************************)
(* C6 (as stated): ValueTypeIndexOf, ValueTypeContains and ValueTypeRemove *)
(* called on an empty slice detect it at entry and report not-found (-1,   *)
(* false, the slice unchanged); no element is read at an index out of      *)
(* range.                                                                  *)
(***************************************************************************)
C6_EmptyInputReported ==
    (call.op \in {"IndexOf", "Contains", "Remove"} /\ call.arg = <<>>) =>
        /\ ~call.panic
        /\ ~call.found
        /\ call.op = "IndexOf" => call.idx = -1
        /\ call.op = "Remove" => call.out = <<>>

(***************************************************************************)
(* C7: for every sorted slice, the empty one included, and every item,     *)
(* ValueTypeInsert returns a sorted slice one element longer whose         *)
(* elements are those of the slice plus the item.                          *)
(***************************************************************************)
C7_InsertSortedPlusItem ==
    (call.op = "Insert" /\ IsSortedSeq(call.arg)) =>
        /\ ~call.panic
        /\ Len(call.out) = Len(call.arg) + 1
        /\ IsSortedSeq(call.out)
        /\ \A e \in { call.out[i] : i \in 1 .. Len(call.out) } :
               Count(call.out, e) =
                   Count(call.arg, e) + (IF e = call.item THEN 1 ELSE 0)

\* an item strictly between two elements of the slice is inserted
C7_Witness ==
    /\ call.op = "Insert"
    /\ \E i, j \in 1 .. Len(call.arg) :
           lt(call.arg[i], call.item) /\ lt(call.item, call.arg[j])
    /\ Len(call.out) = Len(call.arg) + 1

(***************************************************************************)
(* C8: on a non-empty sorted slice ValueTypeRemove removes exactly one     *)
(* element equivalent to item, the first one, and keeps the others in      *)
(* their order; when no element is equivalent it returns the slice as it   *)
(* is.                                                                     *)
(***************************************************************************)
C8_RemoveOneEquivalent ==
    (call.op = "Remove" /\ Len(call.arg) > 0) =>
        /\ ~call.panic
        /\ call.out = IF Equivalents(call.arg, call.item) # {}
                      THEN Without(call.arg, Least(Equivalents(call.arg, call.item)))
                      ELSE call.arg

\* an item with two equivalent elements in the slice is removed
C8_Witness ==
    /\ call.op = "Remove"
    /\ Cardinality(Equivalents(call.arg, call.item)) >= 2
    /\ Len(call.out) = Len(call.arg) - 1

(***************************************************************************)
(* C9 (as stated): when the slice contains value, ValueTypeRemove returns  *)
(* a slice one element shorter and ValueTypeContains on the returned slice *)
(* reports that value is no longer contained.                              *)
(***************************************************************************)
C9_RemovedNoLongerContained ==
    ( /\ last.op = "Remove"
      /\ Equivalents(last.arg, last.item) # {}
      /\ call.op = "Contains"
      /\ call.arg = last.out
      /\ call.item = last.item ) =>
        /\ Len(last.out) = Len(last.arg) - 1
        /\ ~call.panic
        /\ ~call.found

(***************************************************************************)
(* C10: ValueTypeRemove(ValueTypeInsert(sorted, x), x) is the original     *)
(* slice: same length, same elements, same order.                          *)
(***************************************************************************)
C10_RemoveAfterInsertRoundTrip ==
    ( /\ last.op = "Insert"
      /\ call.op = "Remove"
      /\ call.arg = last.out
      /\ call.item = last.item ) =>
        /\ ~call.panic
        /\ call.out = last.arg

\* the round trip on a slice that already holds an element equivalent to x
C10_Witness ==
    /\ last.op = "Insert"
    /\ call.op = "Remove"
    /\ call.arg = last.out
    /\ call.item = last.item
    /\ Equivalents(last.arg, last.item) # {}
    /\ call.out = last.arg

(***************************************************************************)
(* Reference notions for the k-way calls.  The elements of the argument    *)
(* list are pairwise different (equal keys carry different tags), so a     *)
(* sequence holds every input element exactly once iff its length is the   *)
(* sum of the input lengths and its elements are the input elements.       *)
(***************************************************************************)
RECURSIVE SumLen(_)
SumLen(slices) == IF slices = <<>> THEN 0 ELSE Len(Head(slices)) + SumLen(Tail(slices))

AllElements(slices) == UNION { Elements(slices[p]) : p \in 1 .. Len(slices) }

\* the values the callback was called with, in call order
Values(calls) == [i \in 1 .. Len(calls) |-> calls[i][1]]

\* the keys of a slice, in order: what two slices of ints are compared by
KeysOf(s) == [i \in 1 .. Len(s) |-> s[i][1]]

\* the argument positions at which a non-empty slice was passed
NonEmptyAt(slices) == { p \in 1 .. Len(slices) : Len(slices[p]) > 0 }

(***************************************************************************)
(* C11: ValueTypeIterateOver returns after calling the callback exactly    *)
(* once per input element (as many calls as the input lengths sum to, the  *)
(* values being the input elements), and the values are passed in          *)
(* non-decreasing order.                                                   *)
(***************************************************************************)
C11_IterateOverSortedConcatenation ==
    call.op = "IterateOver" =>
        /\ ~call.panic
        /\ Len(call.calls) = SumLen(sorted)
        /\ Elements(Values(call.calls)) = AllElements(sorted)
        /\ IsSortedSeq(Values(call.calls))

\* three sources of two elements or more whose elements interleave, one of
\* them exhausted while two still have elements
C11_Witness ==
    /\ call.op = "IterateOver"
    /\ Len(sorted) = 3
    /\ \A p \in 1 .. 3 : Len(sorted[p]) >= 2
    /\ Len(call.calls) = SumLen(sorted)
    /\ \E i, j, k \in 1 .. Len(call.calls) :
         /\ i < j /\ j < k
         /\ Source(call.calls[i][1]) = Source(call.calls[k][1])
         /\ Source(call.calls[i][1]) # Source(call.calls[j][1])
    /\ Source(call.calls[Len(call.calls)][1]) # Source(call.calls[Len(call.calls) - 1][1])

(***************************************************************************)
(* C12: in every call callback(value, srcIndex) of ValueTypeIterateOver,   *)
(* srcIndex is the position in the argument list of the slice the value    *)
(* was taken from, also when some arguments are empty and when exactly one *)
(* is non-empty.                                                           *)
(***************************************************************************)
C12_SrcIndexIsArgumentPosition ==
    call.op = "IterateOver" =>
        \A i \in 1 .. Len(call.calls) : call.calls[i][2] = Source(call.calls[i][1])

(***************************************************************************)
(* C13: ValueTypeUnion returns a sequence as long as the inputs together,  *)
(* holding every element of every input (nothing de-duplicated), in        *)
(* non-decreasing order, and leaves the inputs as they were.               *)
(***************************************************************************)
C13_UnionSortedMultisetUnion ==
    call.op = "Union" =>
        /\ ~call.panic
        /\ Len(call.out) = SumLen(sorted)
        /\ Elements(call.out) = AllElements(sorted)
        /\ IsSortedSeq(call.out)
        /\ call.args = sorted

\* an empty input among three, the two others sharing a key, and a final
\* copy of two elements or more
C13_Witness ==
    /\ call.op = "Union"
    /\ Len(sorted) = 3
    /\ Cardinality(NonEmptyAt(sorted)) = 2
    /\ \E p, q \in NonEmptyAt(sorted) :
         /\ p # q
         /\ \E i \in 1 .. Len(sorted[p]), j \in 1 .. Len(sorted[q]) :
              Equivalent(sorted[p][i], sorted[q][j])
    /\ Len(call.out) >= 4
    /\ Source(call.out[Len(call.out)]) = Source(call.out[Len(call.out) - 1])
    /\ Source(call.out[1]) # Source(call.out[Len(call.out)])

\* the elements of s, in order, that have no equivalent element in other
NotIn(s, other) ==
    SelectSeq(s, LAMBDA x : \A j \in 1 .. Len(other) : ~Equivalent(x, other[j]))

\* the elements of s, in order, that have an equivalent element in every
\* slice of others
InAll(s, others) ==
    SelectSeq(s, LAMBDA x : \A q \in 1 .. Len(others) :
                                \E j \in 1 .. Len(others[q]) : Equivalent(x, others[q][j]))

(***************************************************************************)
(* C14: for sorted a and b, duplicates allowed in either,                  *)
(* ValueTypeDifference(a, b) is the subsequence of a, in order, of the     *)
(* elements of a that are not equivalent to any element of b.              *)
(***************************************************************************)
C14_DifferenceDropsEveryEquivalent ==
    call.op = "Difference" => call.out = NotIn(sorted[1], sorted[2])

\* the argument positions of the slices no other slice is shorter than
Shortest(slices) ==
    { p \in 1 .. Len(slices) : \A q \in 1 .. Len(slices) : Len(slices[p]) <= Len(slices[q]) }

(***************************************************************************)
(* C15: for one or more sorted slices ValueTypeIntersection returns the    *)
(* subsequence, in order, of the shortest input made of the elements that  *)
(* have an equivalent element in every other input; Intersection(a, a) is  *)
(* a.                                                                      *)
(***************************************************************************)
C15_IntersectionOfShortest ==
    (call.op = "Intersection" /\ Len(sorted) >= 1) =>
        /\ ~call.panic
        /\ \E p \in Shortest(sorted) : call.out = InAll(sorted[p], sorted)
        /\ (Len(sorted) = 2 /\ KeysOf(sorted[1]) = KeysOf(sorted[2])) =>
              KeysOf(call.out) = KeysOf(sorted[1])

\* three inputs; the result keeps some elements of the shortest and drops
\* others, and a cursor of a longer input had to skip smaller elements
C15_Witness ==
    /\ call.op = "Intersection"
    /\ Len(sorted) = 3
    /\ \E p \in Shortest(sorted) :
         /\ call.out = InAll(sorted[p], sorted)
         /\ call.out # <<>>
         /\ Len(call.out) < Len(sorted[p])
         /\ \E q \in 1 .. 3 : q # p /\ lt(sorted[q][1], call.out[1])

\* no element of s is equivalent to an element of other
NoneEquivalent(s, other) ==
    \A i \in 1 .. Len(s), j \in 1 .. Len(other) : ~Equivalent(s[i], other[j])

C17_MergeSortedNoOutOfRange ==
    call.op = "Merge" =>
        /\ ~call.panic
        /\ Len(call.out) = SumLen(sorted)
        /\ Elements(call.out) = AllElements(sorted)
        /\ IsSortedSeq(call.out)

(***************************************************************************)
(* Reference notions for the run stack.                                    *)
(***************************************************************************)
\* each run is longer than the one above it, and longer than the two above
\* it together, all the way down the stack
RunStackOrdered(h) ==
    /\ \A i \in 2 .. h.stackSize - 1 :
         At(h.runLen, i - 2) > At(h.runLen, i - 1) + At(h.runLen, i)
    /\ \A i \in 1 .. h.stackSize - 1 : At(h.runLen, i - 1) > At(h.runLen, i)

\* the index up to which runs have been pushed: lo advances when
\* mergeCollapse has returned
PushedUpTo == IF pc = "collapse" THEN sortLo + sortRunLen ELSE sortLo

RunStackContiguous(h) ==
    /\ At(h.runBase, 0) = 0
    /\ \A i \in 0 .. h.stackSize - 2 :
         At(h.runBase, i) + At(h.runLen, i) = At(h.runBase, i + 1)
    /\ \A i \in 0 .. h.stackSize - 1 : At(h.runLen, i) > 0
    /\ At(h.runBase, h.stackSize - 1) + At(h.runLen, h.stackSize - 1) = PushedUpTo

MergeIndexOk(h, i) == 0 <= i /\ (i = h.stackSize - 2 \/ i = h.stackSize - 3)

(***************************************************************************)
(* C18: each time mergeCollapse returns during a sort, every run on the    *)
(* stack, not only the three on top, is longer than the run above it and   *)
(* longer than the two runs above it together.                             *)
(***************************************************************************)
C18_StackOrderedAfterCollapse ==
    [][(pc = "collapse" /\ pc' \in {"run", "force"}) => RunStackOrdered(ts')]_vars

\* mergeCollapse has returned after the push that splits: the runs under
\* the first one are merged into one, and the stack is in order
C18_Witness ==
    /\ pc = "run"
    /\ \E w \in 2 .. MaxSplit :
         /\ arr = SplitRuns(w)
         /\ sortLo = 3 * SplitBlocks(w)
    /\ ts.stackSize = 2
    /\ RunStackOrdered(ts)

(***************************************************************************)
(* C19: the run stack never overflows: whatever the length of the array    *)
(* and the lengths of its runs, pushRun is executed with stackSize less    *)
(* than the stack length newTimSort chose.                                 *)
(***************************************************************************)
C19_StackNeverOverflows ==
    /\ err # "panic: index out of range"
    /\ pc = "run" => ts.stackSize < Len(ts.runBase)

(***************************************************************************)
(* C20: after each pushRun and each mergeAt the runs on the stack are      *)
(* contiguous and cover what has been pushed: runBase[0] is 0, each run    *)
(* ends where the next begins, no run is empty, the top run ends at the    *)
(* index up to which runs were pushed; and mergeAt(i) is called with       *)
(* 0 <= i and i = stackSize-2 or i = stackSize-3 only.                      *)
(***************************************************************************)
C20_RunsContiguous ==
    /\ ts.stackSize >= 1 => RunStackContiguous(ts)
    /\ (pc = "collapse" /\ ts.stackSize > 1 /\ CollapseAt(ts) >= 0) =>
          MergeIndexOk(ts, CollapseAt(ts))
    /\ (pc = "force" /\ ts.stackSize > 1) => MergeIndexOk(ts, ForceAt(ts))
    /\ err \in {Nil, "panic: index out of range"}

\* a merge at stackSize-3 has slid the top run down one place (its copy is
\* still above the top), and two runs or more are pending
C20_Witness ==
    /\ pc = "collapse"
    /\ ts.stackSize >= 2
    /\ ts.stackSize < Len(ts.runLen)
    /\ At(ts.runLen, ts.stackSize) = At(ts.runLen, ts.stackSize - 1)
    /\ At(ts.runBase, ts.stackSize) = At(ts.runBase, ts.stackSize - 1)
    /\ RunStackContiguous(ts)

(***************************************************************************)
(* Reference notions for the functions of the sort called on their own.    *)
(***************************************************************************)
\* how many elements of a[base .. base+len) are less than key, and how many
\* are not greater than key
LessIn(a, base, len, key) ==
    Cardinality({ i \in base .. base + len - 1 : lt(At(a, i), key) })

NotGreaterIn(a, base, len, key) ==
    Cardinality({ i \in base .. base + len - 1 : ~lt(key, At(a, i)) })

Did(op) == pc = "done" /\ call.op = op

(***************************************************************************)
(* C21: on a non-decreasing range a[base .. base+len), len > 0, with any   *)
(* key and any hint in 0 .. len-1, gallopLeft returns a nil error and the  *)
(* number k of elements of the range that are less than key, which is the  *)
(* first offset with key <= a[base+k] (k = len when there is none): the    *)
(* same k whatever the hint.                                               *)
(***************************************************************************)
C21_GallopLeftCountsLess ==
    Did("gallopLeft") =>
        /\ err = Nil
        /\ 0 <= call.k /\ call.k <= call.len
        /\ call.k = LessIn(arr, call.base, call.len, call.key)
        /\ \A j \in 0 .. call.len - 1 :
               ~lt(At(arr, call.base + j), call.key) <=> call.k <= j

\* a gallop from a hint past the place of the key, in a range not starting
\* at 0 that holds smaller elements and two elements equivalent to the key
C21_Witness ==
    /\ Did("gallopLeft")
    /\ call.base > 0
    /\ call.k > 0
    /\ call.k + 1 < call.len
    /\ call.hint > call.k + 1
    /\ Equivalent(At(arr, call.base + call.k), call.key)
    /\ Equivalent(At(arr, call.base + call.k + 1), call.key)

(***************************************************************************)
(* C22: on a non-decreasing range a[base .. base+len), len > 0, with any   *)
(* key and any hint in 0 .. len-1, gallopRight returns a nil error and the *)
(* number k of elements of the range that are not greater than key, which  *)
(* is the first offset with key < a[base+k] (k = len when there is none):  *)
(* the same k whatever the hint.                                           *)
(***************************************************************************)
C22_GallopRightCountsNotGreater ==
    Did("gallopRight") =>
        /\ err = Nil
        /\ 0 <= call.k /\ call.k <= call.len
        /\ call.k = NotGreaterIn(arr, call.base, call.len, call.key)
        /\ \A j \in 0 .. call.len - 1 :
               lt(call.key, At(arr, call.base + j)) <=> call.k <= j

\* a gallop from a hint before the place of the key, in a range not
\* starting at 0 that holds two elements equivalent to the key and greater
\* ones after them
C22_Witness ==
    /\ Did("gallopRight")
    /\ call.base > 0
    /\ call.k > 2
    /\ call.k < call.len
    /\ call.hint < call.k - 2
    /\ Equivalent(At(arr, call.base + call.k - 1), call.key)
    /\ Equivalent(At(arr, call.base + call.k - 2), call.key)

(***************************************************************************)
(* C23: for lo < hi, countRunAndMakeAscending returns a nil error and r    *)
(* with 1 <= r <= hi-lo; afterwards a[lo .. lo+r) is non-decreasing; when  *)
(* the original a[lo .. lo+r) was strictly decreasing it is that range     *)
(* reversed, otherwise it is untouched; the run is maximal (lo+r = hi, or  *)
(* the original a[lo+r] does not go on in the direction of the run); the   *)
(* elements outside [lo, lo+r) are unchanged.                              *)
(***************************************************************************)
StrictlyDescending(a, lo, hi) == \A i \in lo + 1 .. hi - 1 : lt(At(a, i), At(a, i - 1))

C23_CountRunMaximalRun ==
    Did("countRunAndMakeAscending") =>
        LET lo == call.lo
            r == call.n
        IN  /\ err = Nil
            /\ 1 <= r /\ r <= call.hi - lo
            /\ Len(arr) = Len(orig)
            /\ IsSortedSeq(Slice(arr, lo, lo + r))
            /\ IF StrictlyDescending(orig, lo, lo + r)
               THEN \A i \in 0 .. r - 1 : At(arr, lo + i) = At(orig, lo + r - 1 - i)
               ELSE arr = orig
            /\ \/ lo + r = call.hi
               \/ IF r >= 2 /\ StrictlyDescending(orig, lo, lo + r)
                  THEN ~lt(At(orig, lo + r), At(orig, lo + r - 1))
                  ELSE lt(At(orig, lo + r), At(orig, lo + r - 1))
            /\ \A i \in 0 .. Len(orig) - 1 :
                   (i < lo \/ i >= lo + r) => At(arr, i) = At(orig, i)

\* a strictly descending run of three elements reversed, the element after
\* it, inside the range, being equivalent to its last
C23_Witness ==
    /\ Did("countRunAndMakeAscending")
    /\ call.n = 3
    /\ call.lo + call.n < call.hi
    /\ arr # orig
    /\ Equivalent(At(orig, call.lo + 3), At(orig, call.lo + 2))

(***************************************************************************)
(* C24: for lo <= start <= hi with a[lo .. start) non-decreasing,          *)
(* binarySort returns nil and leaves a[lo .. hi) non-decreasing, a         *)
(* permutation of what it held, equivalent elements in the order they had  *)
(* (the tag of an element is its position before the call), and every      *)
(* element outside [lo, hi) unchanged.                                     *)
(***************************************************************************)
C24_BinarySortStable ==
    Did("binarySort") =>
        /\ err = Nil
        /\ Len(arr) = Len(orig)
        /\ IsSortedSeq(Slice(arr, call.lo, call.hi))
        /\ Elements(Slice(arr, call.lo, call.hi)) = Elements(Slice(orig, call.lo, call.hi))
        /\ \A i, j \in call.lo .. call.hi - 1 :
               (i < j /\ Equivalent(At(arr, i), At(arr, j))) => At(arr, i)[2] < At(arr, j)[2]
        /\ \A i \in 0 .. Len(orig) - 1 :
               (i < call.lo \/ i >= call.hi) => At(arr, i) = At(orig, i)

\* a call with a sorted prefix of two elements and two more to insert, one
\* of them less than the prefix and one equivalent to an element of it
C24_Witness ==
    /\ Did("binarySort")
    /\ call.from - call.lo = 2
    /\ call.hi - call.from = 2
    /\ arr # orig
    /\ \E i \in call.from .. call.hi - 1 : lt(At(orig, i), At(orig, call.lo))
    /\ \E i \in call.from .. call.hi - 1 : \E j \in call.lo .. call.from - 1 :
           Equivalent(At(orig, i), At(orig, j))

(***************************************************************************)
(* C25: in each pass of binarySort's loop the position found for the pivot *)
(* a[start] in the sorted prefix a[lo .. start) is the first index whose   *)
(* element is greater than the pivot (start when there is none), so the    *)
(* pivot lands after the elements equivalent to it.                        *)
(***************************************************************************)
\* the first index of a[lo .. start) with an element greater than the pivot
FirstGreater(a, lo, start, pivot) ==
    Least({ i \in lo .. start - 1 : lt(pivot, At(a, i)) } \cup { start })

\* the first index of a[lo .. start) with an element not less than the pivot
FirstNotLess(a, lo, start, pivot) ==
    Least({ i \in lo .. start - 1 : ~lt(At(a, i), pivot) } \cup { start })

\* a pass of the loop placed a pivot
Placed == pc = "binarySort" /\ call'.start = call.start + 1

C25_PivotAfterEquals ==
    [][Placed => call'.left = FirstGreater(arr, call.lo, call.start, At(arr, call.start))]_vars

\* C25 as stated: the position is the first index whose element is not less
\* than the pivot
C25_Original ==
    [][Placed => call'.left = FirstNotLess(arr, call.lo, call.start, At(arr, call.start))]_vars

\* a pass has put the pivot between an element equivalent to it and a
\* greater one
C25_Witness ==
    /\ call.op = "binarySort"
    /\ call.left > call.lo
    /\ call.left + 1 < call.start
    /\ Equivalent(At(arr, call.left - 1), At(arr, call.left))
    /\ lt(At(arr, call.left), At(arr, call.left + 1))

(***************************************************************************)
(* C26: minRunLength(n) returns an error for n < 0 and n itself for        *)
(* 0 <= n < 32; for n >= 32 it returns k = ceil(n / 2^s), s being the      *)
(* number of right shifts that bring n below 32, with 16 <= k <= 32, and   *)
(* k = 16 when n is a power of two.                                        *)
(***************************************************************************)
\* the number of halvings that bring n below minMerge
RECURSIVE Shifts(_)
Shifts(n) == IF n >= minMerge THEN 1 + Shifts(n \div 2) ELSE 0

CeilDiv(n, d) == (n + d - 1) \div d

RECURSIVE IsPowerOfTwo(_)
IsPowerOfTwo(n) == n = 1 \/ (n > 1 /\ n % 2 = 0 /\ IsPowerOfTwo(n \div 2))

C26_MinRunLengthRange ==
    Did("minRunLength") =>
        LET n == call.n
            k == call.k
        IN  /\ n < 0 => err # Nil
            /\ (0 <= n /\ n < minMerge) => (err = Nil /\ k = n)
            /\ n >= minMerge =>
                   /\ err = Nil
                   /\ k = CeilDiv(n, 2 ^ Shifts(n))
                   /\ minMerge \div 2 <= k /\ k <= minMerge
                   /\ IsPowerOfTwo(n) => k = minMerge \div 2

\* a length shifted three times whose last bit is 0 and that is rounded up
\* all the same, and to minMerge itself
C26_Witness ==
    /\ Did("minRunLength")
    /\ Shifts(call.n) = 3
    /\ call.n % 2 = 0
    /\ call.k * 8 > call.n
    /\ call.k = minMerge

(***************************************************************************)
(* C28: for two non-decreasing runs next to each other on the stack and in *)
(* the array, and minGallop >= 1 at the start, mergeAt returns nil and     *)
(* leaves a[base1 .. base2+len2) non-decreasing, holding the elements of   *)
(* the two runs, the elements of run 1 before the elements of run 2        *)
(* equivalent to them and each run in its own order (the tag of an element *)
(* is its position before the call), every other element of the array      *)
(* unchanged.                                                              *)
(***************************************************************************)
C28_MergeAtStableMerge ==
    Did("mergeAt") =>
        LET lo == call.base1
            hi == call.base1 + call.len1 + call.len2
        IN  /\ err = Nil
            /\ Len(arr) = Len(orig)
            /\ IsSortedSeq(Slice(arr, lo, hi))
            /\ Elements(Slice(arr, lo, hi)) = Elements(Slice(orig, lo, hi))
            /\ \A i, j \in lo .. hi - 1 :
                   (i < j /\ Equivalent(At(arr, i), At(arr, j)))
                       => At(arr, i)[2] < At(arr, j)[2]
            /\ \A i \in 0 .. Len(orig) - 1 :
                   (i < lo \/ i >= hi) => At(arr, i) = At(orig, i)

\* a galloping mergeLo under a third run, of runs that hold equivalent
\* elements, and that moved elements
C28_Witness ==
    /\ Did("mergeAt")
    /\ merges = <<"lo-gallop">>
    /\ call.rest = 1
    /\ arr # orig
    /\ \E i \in call.base1 .. call.base1 + call.len1 - 1 :
       \E j \in call.base1 + call.len1 .. call.base1 + call.len1 + call.len2 - 1 :
           Equivalent(At(orig, i), At(orig, j))

(***************************************************************************)
(* C27: within one sort the length of tmp never decreases and never        *)
(* exceeds len(a)/2, and after every mergeAt that reaches mergeLo or       *)
(* mergeHi tmp is at least as long as the run copied into it, the shorter  *)
(* of the two runs once the elements already in place are left out.        *)
(***************************************************************************)
\* the index the collapse loop at hand merges at
MergeIndex == IF pc = "collapse" THEN CollapseAt(ts) ELSE ForceAt(ts)

\* run i of the stack without its elements not greater than the first of
\* run i+1, and run i+1 without its elements not less than the last of run i
TrimmedLen1(h, a, i) ==
    At(h.runLen, i) - NotGreaterIn(a, At(h.runBase, i), At(h.runLen, i),
                                   At(a, At(h.runBase, i + 1)))

TrimmedLen2(h, a, i) ==
    LessIn(a, At(h.runBase, i + 1), At(h.runLen, i + 1),
           At(a, At(h.runBase, i) + At(h.runLen, i) - 1))

\* a pass of a collapse loop called mergeAt
MergeTaken == pc \in {"collapse", "force"} /\ merges' # merges

C27_TmpLongEnough ==
    /\ [](ts # NoHandler => Len(ts.tmp) <= Len(arr) \div 2)
    /\ [][ts # NoHandler => Len(ts'.tmp) >= Len(ts.tmp)]_vars
    /\ [][(/\ MergeTaken
           /\ TrimmedLen1(ts, arr, MergeIndex) > 0
           /\ TrimmedLen2(ts, arr, MergeIndex) > 0)
          => Len(ts'.tmp) >= Min(TrimmedLen1(ts, arr, MergeIndex),
                                 TrimmedLen2(ts, arr, MergeIndex))]_vars

\* a sort in which tmp was made longer more than once, the last time cut
\* down to half the array
C27_Witness ==
    /\ pc = "done"
    /\ err = Nil
    /\ Len(ts.tmp) > 2 * initialTmpStorageLength
    /\ Len(ts.tmp) = Len(arr) \div 2

(***************************************************************************)
(* C29: every call of ValueTypeSort returns.  Each pass of the run loop    *)
(* pushes a run of at least one element and advances lo by it; each pass   *)
(* of mergeCollapse or mergeForceCollapse that merges leaves the stack one *)
(* run shorter; and when the sort of an array of n >= 32 elements returns  *)
(* nil, the stack holds one run, with runBase[0] = 0 and runLen[0] = n.    *)
(***************************************************************************)
C29_SortTerminates ==
    /\ <>(pc = "done")
    /\ [][(pc = "run" /\ pc' = "collapse") => sortRunLen' >= 1]_vars
    /\ [][(pc = "collapse" /\ pc' \in {"run", "force"})
          => (sortLo' > sortLo /\ nRemaining' < nRemaining)]_vars
    /\ [][MergeTaken => ts'.stackSize = ts.stackSize - 1]_vars
    /\ []((pc = "done" /\ err = Nil /\ Len(orig) >= minMerge)
          => (/\ ts.stackSize = 1
              /\ At(ts.runBase, 0) = 0
              /\ At(ts.runLen, 0) = Len(orig)))

\* a sort of at least minMerge elements has returned after four or more
\* merges, some of them left to mergeForceCollapse
C29_Witness ==
    /\ pc = "done"
    /\ err = Nil
    /\ Len(orig) >= minMerge
    /\ Len(merges) >= 4
    /\ ts.stackSize = 1
    /\ sortRunLen < Len(orig) \div 4

\* the argument list in the order p lists it
Listed(slices, p) == [i \in 1 .. Len(slices) |-> slices[p[i]]]

(***************************************************************************)
(* C30: the result of ValueTypeIntersection does not depend on the order   *)
(* the sorted inputs are listed in, inputs with duplicates and of equal    *)
(* lengths included: a call on the same slices listed in any other order   *)
(* returns the same values as the call that was made.                      *)
(***************************************************************************)
C30_IntersectionAnyOrder ==
    (call.op = "Intersection" /\ Len(sorted) >= 1) =>
        \A p \in Permutations(1 .. Len(sorted)) :
            \A r \in ValueTypeIntersection(Listed(sorted, p)) :
                KeysOf(r.out) = KeysOf(call.out)

====
